---- MODULE Spec2Model ----
(***************************************************************************)
(* Wireless ClearCom firmware: the PTT state machine (ptt_control.c), the  *)
(* call signalling state machine (call_module.c), the button monitor task  *)
(* of gpio_control.c that feeds both, and the datagram transport           *)
(* (udp_transport.c).                                                      *)
(*                                                                         *)
(* Each subsystem has its own specification (SpecPtt, SpecCall,            *)
(* SpecCallConc, SpecButton, SpecUdpTx, SpecUdpRx, SpecUdpLoop); all of    *)
(* them start from the state left by the *_init functions.                 *)
(***************************************************************************)
EXTENDS Integers, Sequences, FiniteSets, TLC

\* ---------------------------------------------------------------- bounds
\* Number of button events delivered to the PTT state machine.
MaxPttEvents == 4
\* Number of calls made into the call module.
MaxCallOps == 4
\* Number of calls each task makes into the call module when two tasks run.
MaxConcCalls == 2
\* Button monitor: the clock value (ms) at which the run is cut off, and the
\* number of edges each button pin makes.
MaxClock == 260
MaxPttEdges == 2
MaxCallEdges == 1
\* Transport: calls of udp_transport_send, runs of the receive loop
\* (udp_transport_start creating the task), and datagrams with a whole header
\* taken by the receive loop.
MaxSends == 3
MaxRuns == 2
MaxRx == 5
\* Calls of udp_transport_get_stats made while the receive loop runs.
MaxStatReads == 2
\* Passes of network_test_task's loop, and the button events delivered
\* while it runs.
MaxCycles == 3
MaxNetButtons == 2
\* Passes of audio_test_task's loop.
MaxAudioFrames == 3

\* ------------------------------------------------------------- constants
\* config_pack.h: time to hold before latch becomes momentary (ms).
PTT_HOLD_THRESHOLD_MS == 200

\* gpio_control.c, button_monitor_task: the delay after a hold notification
\* and the polling period (ms).
HOLD_NOTIFY_DELAY_MS == 100
POLL_DELAY_MS == 10

\* BUTTON_DEBOUNCE_MS is used by button_monitor_task and defined by no file
\* of the source tree: the build's value is one of these.
DebounceValues == {10, 50}

\* ptt_state_t
PTT_IDLE == "IDLE"
PTT_LATCHED == "LATCHED"
PTT_MOMENTARY == "MOMENTARY"
ptt_state_t == {PTT_IDLE, PTT_LATCHED, PTT_MOMENTARY}

\* call_state_t
CALL_IDLE == "CALL_IDLE"
CALL_OUTGOING == "CALL_OUTGOING"
CALL_INCOMING == "CALL_INCOMING"
CALL_ACKNOWLEDGED == "CALL_ACKNOWLEDGED"
call_state_t == {CALL_IDLE, CALL_OUTGOING, CALL_INCOMING, CALL_ACKNOWLEDGED}

\* hold_time_ms values the events carry: both sides of the threshold and the
\* threshold itself.
HoldTimes ==
    {0, 50, PTT_HOLD_THRESHOLD_MS - 1, PTT_HOLD_THRESHOLD_MS, 250}

VARIABLES
    \* ptt_control.c
    ptt_current_state,        \* static ptt_state_t current_state
    ptt_user_callback,        \* static user_callback # NULL
    button_currently_pressed, \* static bool button_currently_pressed
    ptt_events,               \* the (pressed, hold_time_ms) arguments received
    ptt_prev,                 \* current_state on entry to the latest event
    ptt_notes,                \* user_callback invocations of the latest event
    ptt_log,                  \* all user_callback invocations, in order
    \* call_module.c
    call_current_state,       \* static call_state_t current_state
    call_user_callback,       \* static user_callback # NULL
    local_calling,            \* static bool local_calling
    remote_calling,           \* static bool remote_calling
    call_ops,                 \* the calls made into the module, with arguments
    call_prev,                \* current_state on entry to the latest call
    call_notes,               \* user_callback invocations of the latest call
    call_log,                 \* all user_callback invocations, in order
    \* gpio_control.c
    user_ptt_callback,        \* static ptt_callback_t user_ptt_callback # NULL
    user_call_callback,       \* static call_callback_t user_call_callback # NULL
    ptt_pressed,              \* static bool ptt_pressed (written by the ISR)
    call_pressed,             \* static bool call_pressed (written by the ISR)
    ptt_press_time,           \* static int64_t ptt_press_time (ms)
    last_ptt,                 \* button_monitor_task: bool last_ptt
    last_call,                \* button_monitor_task: bool last_call
    current_ptt,              \* button_monitor_task: bool current_ptt
    current_call,             \* button_monitor_task: bool current_call
    gpio_pc,                  \* button_monitor_task: where the task is
    debounce_ms,              \* BUTTON_DEBOUNCE_MS of this build
    now_ms,                   \* esp_timer_get_time() / 1000
    \* the button pins
    ptt_edges,                \* edges the PTT pin has made
    call_edges,               \* edges the call pin has made
    ptt_down_at,              \* now_ms at the PTT pin's latest press edge
    ptt_held_ms,              \* how long the latest completed PTT press lasted
    \* call_module.c entered by two tasks at once
    cc_pc,                    \* per task: where it is in its call
    cc_arg,                   \* per task: the argument of its call
    cc_lc,                    \* per task: the value it read from local_calling
    cc_rc,                    \* per task: the value it read from remote_calling
    cc_new,                   \* per task: update_call_state's new_state
    cc_calls,                 \* per task: calls made so far
    \* udp_transport.c
    udp_initialized,          \* static bool initialized
    udp_running,              \* static bool running
    sock,                     \* static int sock
    rx_task_handle,           \* static TaskHandle_t rx_task_handle (FALSE: NULL)
    user_rx_callback,         \* static udp_rx_callback_t (FALSE: NULL)
    stats,                    \* static udp_stats_t stats
    tx_sequence,              \* static uint32_t tx_sequence
    last_rx_sequence,         \* static uint32_t last_rx_sequence
    rx_loops,                 \* udp_rx_task instances that have not exited
    last_packet_events,       \* calls of device_manager_packet_received
    wire,                     \* datagrams sent and not yet received
    \* what the transport did, kept for the properties
    udp_op,                   \* the latest step, if a transport call
    udp_prev,                 \* the transport's state before the latest step
    tx_built,                 \* sequence numbers of the packets built so far
    tx_calls,                 \* calls of udp_transport_send so far
    rx_runs,                  \* receive tasks created so far
    rx_op,                    \* the latest step, if a receive-loop iteration
    rx_stream,                \* the datagrams accounted in this run, in short
    \* udp_rx_task statement by statement, next to a reader of the statistics
    acct_pc,                  \* where udp_rx_task is in its loop body
    acct_cur,                 \* the datagram it is accounting
    acct_before,              \* stats when the accounting of acct_cur began
    acct_after,               \* stats the whole accounting of acct_cur gives
    acct_reads,               \* calls of udp_transport_get_stats so far
    \* main.c
    test_count,               \* network_test_task: uint32_t test_count
    net_op,                   \* the latest step, if a network_test_task cycle
    task_pc,                  \* per test task: where it is
    audio_passes,             \* audio_test_task: passes of its loop so far
    audio_test_count,         \* audio_test_task: uint32_t test_count
    audio_op,                 \* the latest step, if an audio_test_task pass
    \* a function called once on given arguments
    proc_in,                  \* the function and its arguments
    proc_out,                 \* <<>> before the call, <<result>> after it
    \* device_manager.c and app_main
    dm_initialized,           \* device_manager.c: static bool initialized
    device_state,             \* device_info.state
    last_packet_time,         \* device_info.last_packet_time (ms)
    dm_pack_sleep,            \* DEVICE_TYPE_PACK && ENABLE_LIGHT_SLEEP
    timer_us,                 \* esp_timer_get_time()
    dm_ticks,                 \* steps the timer has made
    dm_last_valid,            \* ms clock at init or the latest valid datagram
    wifi_link,                \* the latest connect / disconnect event handled
    main_pc                   \* app_main: where it is

pttVars == <<ptt_current_state, ptt_user_callback, button_currently_pressed,
             ptt_events, ptt_prev, ptt_notes, ptt_log>>

callVars == <<call_current_state, call_user_callback, local_calling,
              remote_calling, call_ops, call_prev, call_notes, call_log>>

gpioVars == <<user_ptt_callback, user_call_callback, ptt_pressed,
              call_pressed, ptt_press_time, last_ptt, last_call, current_ptt,
              current_call, gpio_pc, debounce_ms, now_ms>>

pinVars == <<ptt_edges, call_edges, ptt_down_at, ptt_held_ms>>

concVars == <<cc_pc, cc_arg, cc_lc, cc_rc, cc_new, cc_calls>>

udpVars == <<udp_initialized, udp_running, sock, rx_task_handle,
             user_rx_callback, stats, tx_sequence, last_rx_sequence,
             rx_loops, last_packet_events, wire, udp_op, udp_prev, tx_built,
             tx_calls, rx_runs, rx_op, rx_stream>>

acctVars == <<acct_pc, acct_cur, acct_before, acct_after, acct_reads>>

appVars == <<test_count, net_op, task_pc, audio_passes, audio_test_count,
             audio_op>>

\* What the PTT, call and button specifications leave alone.
procVars == <<proc_in, proc_out>>

dmVars == <<dm_initialized, device_state, last_packet_time, dm_pack_sleep,
            timer_us, dm_ticks, dm_last_valid, wifi_link, main_pc>>

restVars == <<concVars, udpVars, acctVars, appVars, procVars, dmVars>>

vars == <<pttVars, callVars, gpioVars, pinVars, restVars>>

\* ============================================================ ptt_control.c

\* ptt_control_init(callback); callback is FALSE for NULL.
ptt_control_init(callback) ==
    /\ ptt_user_callback = callback
    /\ ptt_current_state = PTT_IDLE
    /\ button_currently_pressed = FALSE
    /\ ptt_events = <<>>
    /\ ptt_prev = PTT_IDLE
    /\ ptt_notes = <<>>
    /\ ptt_log = <<>>

\* set_state with the transmitting flag computed for LATCHED only.
ptt_notification_latched_only(new_state) ==
    [state |-> new_state, transmitting |-> (new_state = PTT_LATCHED)]

\* The arguments user_callback(new_state, transmitting) is invoked with.
ptt_notification(new_state) ==
    [state |-> new_state,
     transmitting |-> (new_state = PTT_LATCHED \/ new_state = PTT_MOMENTARY)]

\* static void set_state(ptt_state_t new_state)
set_state(new_state) ==
    IF ptt_current_state # new_state
    THEN /\ ptt_current_state' = new_state
         /\ ptt_notes' = IF ptt_user_callback
                         THEN <<ptt_notification(new_state)>>
                         ELSE <<>>
    ELSE /\ UNCHANGED ptt_current_state
         /\ ptt_notes' = <<>>

\* A path of ptt_control_button_event that does not call set_state.
ptt_no_set_state ==
    /\ UNCHANGED ptt_current_state
    /\ ptt_notes' = <<>>

\* if (pressed) { ... } with Idle going straight to Momentary on a long hold.
ptt_on_press_idle_momentary(hold_time_ms) ==
    IF ptt_current_state = PTT_IDLE
    THEN IF hold_time_ms >= PTT_HOLD_THRESHOLD_MS
         THEN set_state(PTT_MOMENTARY)
         ELSE set_state(PTT_LATCHED)
    ELSE IF ptt_current_state = PTT_LATCHED
         THEN IF hold_time_ms >= PTT_HOLD_THRESHOLD_MS
              THEN set_state(PTT_MOMENTARY)
              ELSE ptt_no_set_state
         ELSE ptt_no_set_state

\* if (pressed) { ... } with > in place of >= in the threshold comparison.
ptt_on_press_strict(hold_time_ms) ==
    IF ptt_current_state = PTT_IDLE
    THEN set_state(PTT_LATCHED)
    ELSE IF ptt_current_state = PTT_LATCHED
         THEN IF hold_time_ms > PTT_HOLD_THRESHOLD_MS
              THEN set_state(PTT_MOMENTARY)
              ELSE ptt_no_set_state
         ELSE ptt_no_set_state

\* if (pressed) { ... } with a press in Momentary falling back to Latched.
ptt_on_press_momentary_relatch(hold_time_ms) ==
    IF ptt_current_state = PTT_IDLE
    THEN set_state(PTT_LATCHED)
    ELSE IF ptt_current_state = PTT_LATCHED
         THEN IF hold_time_ms >= PTT_HOLD_THRESHOLD_MS
              THEN set_state(PTT_MOMENTARY)
              ELSE ptt_no_set_state
         ELSE set_state(PTT_LATCHED)

\* if (pressed) { ... } with the hold time ignored in Latched.
ptt_on_press_any_hold(hold_time_ms) ==
    IF ptt_current_state = PTT_IDLE
    THEN set_state(PTT_LATCHED)
    ELSE IF ptt_current_state = PTT_LATCHED
         THEN set_state(PTT_MOMENTARY)
         ELSE ptt_no_set_state

\* ptt_control_button_event, the branch if (pressed) { ... }
ptt_on_press(hold_time_ms) ==
    IF ptt_current_state = PTT_IDLE
    THEN set_state(PTT_LATCHED)
    ELSE IF ptt_current_state = PTT_LATCHED
         THEN IF hold_time_ms >= PTT_HOLD_THRESHOLD_MS
              THEN set_state(PTT_MOMENTARY)
              ELSE ptt_no_set_state
         ELSE ptt_no_set_state

\* else { ... } with a release in Latched keeping the latch.
ptt_on_release_keep_latch ==
    IF ptt_current_state = PTT_MOMENTARY
    THEN set_state(PTT_IDLE)
    ELSE ptt_no_set_state

\* ptt_control_button_event, the branch else { ... } (button released)
ptt_on_release ==
    IF ptt_current_state = PTT_MOMENTARY
    THEN set_state(PTT_IDLE)
    ELSE IF ptt_current_state = PTT_LATCHED
         THEN set_state(PTT_IDLE)
         ELSE ptt_no_set_state

\* void ptt_control_button_event(bool pressed, uint32_t hold_time_ms)
ptt_control_button_event(pressed, hold_time_ms) ==
    /\ button_currently_pressed' = pressed
    /\ IF pressed THEN ptt_on_press(hold_time_ms) ELSE ptt_on_release
    /\ ptt_prev' = ptt_current_state
    /\ ptt_events' = Append(ptt_events,
                            [pressed |-> pressed, hold_time_ms |-> hold_time_ms])
    /\ ptt_log' = ptt_log \o ptt_notes'
    /\ UNCHANGED ptt_user_callback

\* bool ptt_control_is_transmitting(void)
ptt_control_is_transmitting ==
    (ptt_current_state = PTT_LATCHED \/ ptt_current_state = PTT_MOMENTARY)

\* ptt_state_t ptt_control_get_state(void)
ptt_control_get_state == ptt_current_state

\* ============================================================ call_module.c

\* call_module_init(callback); callback is FALSE for NULL.
call_module_init(callback) ==
    /\ call_user_callback = callback
    /\ call_current_state = CALL_IDLE
    /\ local_calling = FALSE
    /\ remote_calling = FALSE
    /\ call_ops = <<>>
    /\ call_prev = CALL_IDLE
    /\ call_notes = <<>>
    /\ call_log = <<>>

\* The arguments user_callback(new_state, local_calling) is invoked with.
call_notification(new_state, lc) ==
    [state |-> new_state, local_calling |-> lc]

\* update_call_state without the current_state != new_state test: the state
\* is stored and the callback invoked on every recomputation.
update_call_state_always_notify(lc, rc) ==
    LET new_state ==
            IF lc /\ rc THEN CALL_ACKNOWLEDGED
            ELSE IF lc /\ ~rc THEN CALL_OUTGOING
            ELSE IF ~lc /\ rc THEN CALL_INCOMING
            ELSE CALL_IDLE
    IN  /\ call_current_state' = new_state
        /\ call_notes' = IF call_user_callback
                         THEN <<call_notification(new_state, lc)>>
                         ELSE <<>>

\* update_call_state in which Acknowledged is left only when both flags are
\* clear (the acknowledgement is remembered).
update_call_state_sticky_ack(lc, rc) ==
    LET new_state ==
            IF lc /\ rc THEN CALL_ACKNOWLEDGED
            ELSE IF call_current_state = CALL_ACKNOWLEDGED /\ (lc \/ rc)
                 THEN CALL_ACKNOWLEDGED
            ELSE IF lc /\ ~rc THEN CALL_OUTGOING
            ELSE IF ~lc /\ rc THEN CALL_INCOMING
            ELSE CALL_IDLE
    IN  IF call_current_state # new_state
        THEN /\ call_current_state' = new_state
             /\ call_notes' = IF call_user_callback
                              THEN <<call_notification(new_state, lc)>>
                              ELSE <<>>
        ELSE /\ UNCHANGED call_current_state
             /\ call_notes' = <<>>

\* update_call_state with the Outgoing and Incoming branches exchanged.
update_call_state_swapped(lc, rc) ==
    LET new_state ==
            IF lc /\ rc THEN CALL_ACKNOWLEDGED
            ELSE IF lc /\ ~rc THEN CALL_INCOMING
            ELSE IF ~lc /\ rc THEN CALL_OUTGOING
            ELSE CALL_IDLE
    IN  IF call_current_state # new_state
        THEN /\ call_current_state' = new_state
             /\ call_notes' = IF call_user_callback
                              THEN <<call_notification(new_state, lc)>>
                              ELSE <<>>
        ELSE /\ UNCHANGED call_current_state
             /\ call_notes' = <<>>

\* static void update_call_state(void), reading local_calling = lc and
\* remote_calling = rc as its caller has just stored them.
update_call_state(lc, rc) ==
    LET new_state ==
            IF lc /\ rc THEN CALL_ACKNOWLEDGED
            ELSE IF lc /\ ~rc THEN CALL_OUTGOING
            ELSE IF ~lc /\ rc THEN CALL_INCOMING
            ELSE CALL_IDLE
    IN  IF call_current_state # new_state
        THEN /\ call_current_state' = new_state
             /\ call_notes' = IF call_user_callback
                              THEN <<call_notification(new_state, lc)>>
                              ELSE <<>>
        ELSE /\ UNCHANGED call_current_state
             /\ call_notes' = <<>>

\* What every call into the module records about itself.
call_record(op, arg) ==
    /\ call_prev' = call_current_state
    /\ call_ops' = Append(call_ops, [op |-> op, arg |-> arg])
    /\ call_log' = call_log \o call_notes'
    /\ UNCHANGED call_user_callback

\* void call_module_button_event(bool pressed)
call_module_button_event(pressed) ==
    /\ local_calling' = pressed
    /\ UNCHANGED remote_calling
    /\ update_call_state(pressed, remote_calling)
    /\ call_record("button", pressed)

\* void call_module_remote_signal(bool remote_calling_new)
call_module_remote_signal(remote_calling_new) ==
    /\ IF remote_calling # remote_calling_new
       THEN /\ remote_calling' = remote_calling_new
            /\ update_call_state(local_calling, remote_calling_new)
       ELSE /\ UNCHANGED <<remote_calling, call_current_state>>
            /\ call_notes' = <<>>
    /\ UNCHANGED local_calling
    /\ call_record("remote", remote_calling_new)

\* void call_module_clear(void)
call_module_clear ==
    /\ local_calling' = FALSE
    /\ remote_calling' = FALSE
    /\ update_call_state(FALSE, FALSE)
    /\ call_record("clear", FALSE)

\* call_state_t call_module_get_state(void)
call_module_get_state == call_current_state

\* bool call_module_is_calling(void)
call_module_is_calling ==
    (call_current_state = CALL_OUTGOING
        \/ call_current_state = CALL_ACKNOWLEDGED)

\* bool call_module_is_being_called(void)
call_module_is_being_called ==
    (call_current_state = CALL_INCOMING
        \/ call_current_state = CALL_ACKNOWLEDGED)

\* ------------------------------------------ call_module.c, two tasks at once
\* The button monitor task calls call_module_button_event and the receive
\* task calls call_module_remote_signal.  Nothing in call_module.c locks:
\* every read and every write of a static variable is a step of its own.
ButtonTask == "button"
RxTask == "rx"
CallTasks == {ButtonTask, RxTask}

\* No task is inside call_module.c.
conc_at_init ==
    /\ cc_pc = [t \in CallTasks |-> "idle"]
    /\ cc_arg = [t \in CallTasks |-> FALSE]
    /\ cc_lc = [t \in CallTasks |-> FALSE]
    /\ cc_rc = [t \in CallTasks |-> FALSE]
    /\ cc_new = [t \in CallTasks |-> CALL_IDLE]
    /\ cc_calls = [t \in CallTasks |-> 0]

\* update_call_state: the if-chain that computes new_state from the two flags
\* as read.
compute_new_state(lc, rc) ==
    IF lc /\ rc THEN CALL_ACKNOWLEDGED
    ELSE IF lc /\ ~rc THEN CALL_OUTGOING
    ELSE IF ~lc /\ rc THEN CALL_INCOMING
    ELSE CALL_IDLE

\* call_module_button_event(pressed): local_calling = pressed, then
\* update_call_state() is entered.
conc_button_store(pressed) ==
    /\ cc_pc[ButtonTask] = "idle"
    /\ local_calling' = pressed
    /\ cc_arg' = [cc_arg EXCEPT ![ButtonTask] = pressed]
    /\ cc_calls' = [cc_calls EXCEPT ![ButtonTask] = @ + 1]
    /\ cc_pc' = [cc_pc EXCEPT ![ButtonTask] = "load_local"]
    /\ UNCHANGED <<remote_calling, call_current_state, call_log, cc_lc,
                   cc_rc, cc_new>>

\* call_module_remote_signal(remote_calling_new): the test
\* remote_calling != remote_calling_new; the call returns when it fails.
conc_remote_test(remote_calling_new) ==
    /\ cc_pc[RxTask] = "idle"
    /\ cc_arg' = [cc_arg EXCEPT ![RxTask] = remote_calling_new]
    /\ cc_calls' = [cc_calls EXCEPT ![RxTask] = @ + 1]
    /\ cc_pc' = [cc_pc EXCEPT ![RxTask] =
                    IF remote_calling # remote_calling_new
                    THEN "store_remote" ELSE "idle"]
    /\ UNCHANGED <<local_calling, remote_calling, call_current_state,
                   call_log, cc_lc, cc_rc, cc_new>>

\* call_module_remote_signal: remote_calling = remote_calling_new, then
\* update_call_state() is entered.
conc_remote_store ==
    /\ cc_pc[RxTask] = "store_remote"
    /\ remote_calling' = cc_arg[RxTask]
    /\ cc_pc' = [cc_pc EXCEPT ![RxTask] = "load_local"]
    /\ UNCHANGED <<local_calling, call_current_state, call_log, cc_arg,
                   cc_lc, cc_rc, cc_new, cc_calls>>

\* update_call_state: local_calling is read.
conc_load_local(t) ==
    /\ cc_pc[t] = "load_local"
    /\ cc_lc' = [cc_lc EXCEPT ![t] = local_calling]
    /\ cc_pc' = [cc_pc EXCEPT ![t] = "load_remote"]
    /\ UNCHANGED <<local_calling, remote_calling, call_current_state,
                   call_log, cc_arg, cc_rc, cc_new, cc_calls>>

\* update_call_state: remote_calling is read and new_state computed.
conc_load_remote(t) ==
    /\ cc_pc[t] = "load_remote"
    /\ cc_rc' = [cc_rc EXCEPT ![t] = remote_calling]
    /\ cc_new' = [cc_new EXCEPT ![t] = compute_new_state(cc_lc[t], remote_calling)]
    /\ cc_pc' = [cc_pc EXCEPT ![t] = "compare"]
    /\ UNCHANGED <<local_calling, remote_calling, call_current_state,
                   call_log, cc_arg, cc_lc, cc_calls>>

\* update_call_state: if (current_state != new_state)
conc_compare(t) ==
    /\ cc_pc[t] = "compare"
    /\ cc_pc' = [cc_pc EXCEPT ![t] =
                    IF call_current_state # cc_new[t]
                    THEN "store_state" ELSE "idle"]
    /\ UNCHANGED <<local_calling, remote_calling, call_current_state,
                   call_log, cc_arg, cc_lc, cc_rc, cc_new, cc_calls>>

\* update_call_state: current_state = new_state and the callback.
conc_store_state(t) ==
    /\ cc_pc[t] = "store_state"
    /\ call_current_state' = cc_new[t]
    /\ call_log' = IF call_user_callback
                   THEN Append(call_log,
                               call_notification(cc_new[t], local_calling))
                   ELSE call_log
    /\ cc_pc' = [cc_pc EXCEPT ![t] = "idle"]
    /\ UNCHANGED <<local_calling, remote_calling, cc_arg, cc_lc, cc_rc,
                   cc_new, cc_calls>>

\* ============================================================ gpio_control.c

\* gpio_control_init(ptt_cb, call_cb) and the file's static initialisers;
\* the button monitor task is created and about to enter its loop.
gpio_control_init(ptt_cb, call_cb) ==
    /\ user_ptt_callback = ptt_cb
    /\ user_call_callback = call_cb
    /\ ptt_pressed = FALSE
    /\ call_pressed = FALSE
    /\ ptt_press_time = 0
    /\ last_ptt = FALSE
    /\ last_call = FALSE
    /\ current_ptt = FALSE
    /\ current_call = FALSE
    /\ gpio_pc = "poll_ptt"
    /\ now_ms = 0

\* Both buttons are up when the device starts.
pins_released ==
    /\ ptt_edges = 0
    /\ call_edges = 0
    /\ ptt_down_at = 0
    /\ ptt_held_ms = -1

\* static void ptt_isr_handler(void *arg): the pin changed level (ANYEDGE)
\* and the handler stores the level it reads.
ptt_isr_handler ==
    /\ ptt_pressed' = ~ptt_pressed
    /\ ptt_edges' = ptt_edges + 1
    /\ IF ~ptt_pressed
       THEN /\ ptt_down_at' = now_ms
            /\ UNCHANGED ptt_held_ms
       ELSE /\ ptt_held_ms' = now_ms - ptt_down_at
            /\ UNCHANGED ptt_down_at
    /\ UNCHANGED <<call_edges, user_ptt_callback, user_call_callback,
                   call_pressed, ptt_press_time, last_ptt, last_call,
                   current_ptt, current_call, gpio_pc, debounce_ms, now_ms>>

\* static void call_isr_handler(void *arg)
call_isr_handler ==
    /\ call_pressed' = ~call_pressed
    /\ call_edges' = call_edges + 1
    /\ UNCHANGED <<ptt_edges, ptt_down_at, ptt_held_ms, user_ptt_callback,
                   user_call_callback, ptt_pressed, ptt_press_time, last_ptt,
                   last_call, current_ptt, current_call, gpio_pc, debounce_ms,
                   now_ms>>

\* user_ptt_callback(pressed, hold_time_ms): ptt_control_button_event is the
\* handler the GPIO code calls.
call_user_ptt_callback(pressed, hold_time_ms) ==
    IF user_ptt_callback
    THEN ptt_control_button_event(pressed, hold_time_ms)
    ELSE UNCHANGED pttVars

\* user_call_callback(pressed): call_module_button_event is the handler the
\* GPIO code calls.
call_user_call_callback(pressed) ==
    IF user_call_callback
    THEN call_module_button_event(pressed)
    ELSE UNCHANGED callVars

\* button_monitor_task: read ptt_pressed; on a change start the debounce
\* delay.
monitor_poll_ptt ==
    /\ gpio_pc = "poll_ptt"
    /\ current_ptt' = ptt_pressed
    /\ IF ptt_pressed # last_ptt
       THEN /\ now_ms' = now_ms + debounce_ms
            /\ gpio_pc' = "confirm_ptt"
       ELSE /\ UNCHANGED now_ms
            /\ gpio_pc' = "check_hold"
    /\ UNCHANGED <<user_ptt_callback, user_call_callback, ptt_pressed,
                   call_pressed, ptt_press_time, last_ptt, last_call,
                   current_call, debounce_ms>>
    /\ UNCHANGED <<pttVars, callVars, pinVars>>

\* button_monitor_task: re-read after the debounce delay and deliver the
\* press or the release when the change is confirmed.
monitor_confirm_ptt ==
    /\ gpio_pc = "confirm_ptt"
    /\ current_ptt' = ptt_pressed
    /\ IF ptt_pressed # last_ptt
       THEN /\ IF ptt_pressed
               THEN /\ ptt_press_time' = now_ms
                    /\ call_user_ptt_callback(TRUE, 0)
               ELSE /\ UNCHANGED ptt_press_time
                    /\ call_user_ptt_callback(FALSE, now_ms - ptt_press_time)
            /\ last_ptt' = ptt_pressed
       ELSE UNCHANGED <<ptt_press_time, last_ptt, pttVars>>
    /\ gpio_pc' = "check_hold"
    /\ UNCHANGED <<user_ptt_callback, user_call_callback, ptt_pressed,
                   call_pressed, last_call, current_call, debounce_ms, now_ms>>
    /\ UNCHANGED <<callVars, pinVars>>

\* if (current_ptt && (esp_timer_get_time() / 1000 - ptt_press_time) >
\*     PTT_HOLD_THRESHOLD_MS)
monitor_hold_due ==
    current_ptt /\ (now_ms - ptt_press_time) > PTT_HOLD_THRESHOLD_MS

\* button_monitor_task: notify of a hold while the button is still pressed.
monitor_check_hold ==
    /\ gpio_pc = "check_hold"
    /\ IF monitor_hold_due
       THEN /\ call_user_ptt_callback(TRUE, now_ms - ptt_press_time)
            /\ now_ms' = now_ms + HOLD_NOTIFY_DELAY_MS
       ELSE UNCHANGED <<pttVars, now_ms>>
    /\ gpio_pc' = "poll_call"
    /\ UNCHANGED <<user_ptt_callback, user_call_callback, ptt_pressed,
                   call_pressed, ptt_press_time, last_ptt, last_call,
                   current_ptt, current_call, debounce_ms>>
    /\ UNCHANGED <<callVars, pinVars>>

\* button_monitor_task: read call_pressed; on a change start the debounce
\* delay.
monitor_poll_call ==
    /\ gpio_pc = "poll_call"
    /\ current_call' = call_pressed
    /\ IF call_pressed # last_call
       THEN /\ now_ms' = now_ms + debounce_ms
            /\ gpio_pc' = "confirm_call"
       ELSE /\ UNCHANGED now_ms
            /\ gpio_pc' = "sleep"
    /\ UNCHANGED <<user_ptt_callback, user_call_callback, ptt_pressed,
                   call_pressed, ptt_press_time, last_ptt, last_call,
                   current_ptt, debounce_ms>>
    /\ UNCHANGED <<pttVars, callVars, pinVars>>

\* button_monitor_task: re-read after the debounce delay and deliver the
\* confirmed change of the call button.
monitor_confirm_call ==
    /\ gpio_pc = "confirm_call"
    /\ current_call' = call_pressed
    /\ IF call_pressed # last_call
       THEN /\ call_user_call_callback(call_pressed)
            /\ last_call' = call_pressed
       ELSE UNCHANGED <<last_call, callVars>>
    /\ gpio_pc' = "sleep"
    /\ UNCHANGED <<user_ptt_callback, user_call_callback, ptt_pressed,
                   call_pressed, ptt_press_time, last_ptt, current_ptt,
                   debounce_ms, now_ms>>
    /\ UNCHANGED <<pttVars, pinVars>>

\* button_monitor_task: vTaskDelay(pdMS_TO_TICKS(10)) closing the loop.
monitor_sleep ==
    /\ gpio_pc = "sleep"
    /\ now_ms' = now_ms + POLL_DELAY_MS
    /\ gpio_pc' = "poll_ptt"
    /\ UNCHANGED <<user_ptt_callback, user_call_callback, ptt_pressed,
                   call_pressed, ptt_press_time, last_ptt, last_call,
                   current_ptt, current_call, debounce_ms>>
    /\ UNCHANGED <<pttVars, callVars, pinVars>>

\* bool gpio_control_is_ptt_pressed(void)
gpio_control_is_ptt_pressed == ptt_pressed

\* ============================================================ udp_transport.c

\* A uint32_t is a pair <<high half, low half>> of 16-bit halves.
Half == 2^16

u32(n) == <<n \div Half, n % Half>>

U32_MAX == <<Half - 1, Half - 1>>

\* a + b in uint32_t arithmetic
u32_add(a, b) ==
    LET low == a[2] + b[2]
    IN  <<(a[1] + b[1] + (low \div Half)) % Half, low % Half>>

\* a - b in uint32_t arithmetic
u32_sub(a, b) ==
    LET low == a[2] - b[2] + Half
        borrow == 1 - (low \div Half)
    IN  <<(a[1] - b[1] - borrow + Half) % Half, low % Half>>

\* a > b on uint32_t
u32_gt(a, b) == a[1] > b[1] \/ (a[1] = b[1] /\ a[2] > b[2])

\* audio_packet_t: sizeof(audio_packet_t) - sizeof(opus_data), the header
\* of sequence, timestamp, opus_size, flags and reserved.
HEADER_SIZE == 4 + 4 + 2 + 1 + 1
\* sizeof(((audio_packet_t*)0)->opus_data)
OPUS_DATA_SIZE == 256
PACKET_FLAG_PTT == 2^0
PACKET_FLAG_CALL == 2^1

ESP_OK == "ESP_OK"
ESP_FAIL == "ESP_FAIL"

\* Contents of a payload buffer; NoData where no byte was copied.
DataTags == {"frame_a", "frame_b"}
NoData == "no_data"

\* opus_size values callers pass to udp_transport_send.
PayloadSizes == {0, 1, OPUS_DATA_SIZE, 300}

\* sendto's outcome: 0 for success, otherwise the errno of the failure
\* (118: no route to host, the peer is not connected yet).
SendtoErrnos == {0, 118}

\* memset(&stats, 0, sizeof(stats)).  packet_loss_percent is kept as the
\* pair <<packets_lost, total>> the float was last computed from.
stats_zero ==
    [packets_sent |-> 0, packets_received |-> 0, packets_lost |-> u32(0),
     bytes_sent |-> 0, bytes_received |-> 0,
     packet_loss_percent |-> <<u32(0), u32(0)>>]

\* The record kept of a transport call: its arguments, its return value,
\* whether sendto was called, and the packet handed to it.
udp_no_op ==
    [op |-> "none", opus_data |-> NoData, opus_size |-> 0,
     ptt_active |-> FALSE, call_active |-> FALSE, ret |-> ESP_OK,
     handed |-> FALSE, sent |-> FALSE, packet |-> <<>>, out |-> <<>>]

udp_snapshot ==
    [stats |-> stats, tx_sequence |-> tx_sequence,
     last_rx_sequence |-> last_rx_sequence, initialized |-> udp_initialized,
     running |-> udp_running, rx_loops |-> rx_loops,
     last_packet_events |-> last_packet_events]

\* The record kept of a receive-loop iteration: what recvfrom returned and
\* the calls of user_rx_callback the iteration made.
rx_no_op == [kind |-> "none", dgram |-> <<>>, calls |-> <<>>]

\* What is kept of the datagrams one run of the receive loop has accounted:
\* how many, the first and the latest sequence number, and whether each
\* sequence number was higher than the one before it.
rx_stream_none ==
    [count |-> 0, first |-> u32(0), last |-> u32(0), increasing |-> TRUE]

rx_stream_add(sequence) ==
    [count |-> rx_stream.count + 1,
     first |-> IF rx_stream.count = 0 THEN sequence ELSE rx_stream.first,
     last |-> sequence,
     increasing |-> /\ rx_stream.increasing
                    /\ (rx_stream.count = 0
                           \/ u32_gt(sequence, rx_stream.last))]

\* udp_transport_init(rx_callback) has returned ESP_OK: the socket is open
\* and bound, the receive task is not created yet.
udp_transport_init(rx_callback) ==
    /\ user_rx_callback = rx_callback
    /\ sock = 0
    /\ stats = stats_zero
    /\ tx_sequence = u32(0)
    /\ last_rx_sequence = u32(0)
    /\ udp_initialized = TRUE
    /\ udp_running = FALSE
    /\ rx_task_handle = FALSE
    /\ rx_loops = 0
    /\ last_packet_events = 0
    /\ wire = <<>>
    /\ udp_op = udp_no_op
    /\ udp_prev = udp_snapshot
    /\ tx_built = <<>>
    /\ tx_calls = 0
    /\ rx_runs = 0
    /\ rx_op = rx_no_op
    /\ rx_stream = rx_stream_none

\* esp_err_t udp_transport_start(void)
udp_transport_start ==
    /\ UNCHANGED <<udp_initialized, sock, user_rx_callback, stats,
                   tx_sequence, last_rx_sequence, last_packet_events,
                   tx_built>>
    /\ IF ~udp_initialized
       THEN /\ UNCHANGED <<udp_running, rx_task_handle, rx_loops>>
            /\ udp_op' = [udp_no_op EXCEPT !.op = "start", !.ret = ESP_FAIL]
       ELSE IF udp_running
       THEN /\ UNCHANGED <<udp_running, rx_task_handle, rx_loops>>
            /\ udp_op' = [udp_no_op EXCEPT !.op = "start"]
       ELSE /\ udp_running' = TRUE
            /\ rx_task_handle' = TRUE
            /\ rx_loops' = rx_loops + 1
            /\ udp_op' = [udp_no_op EXCEPT !.op = "start"]

\* esp_err_t udp_transport_stop(void)
udp_transport_stop ==
    /\ UNCHANGED <<udp_initialized, sock, user_rx_callback, stats,
                   tx_sequence, last_rx_sequence, last_packet_events,
                   tx_built, rx_loops>>
    /\ udp_op' = [udp_no_op EXCEPT !.op = "stop"]
    /\ IF ~udp_running
       THEN UNCHANGED <<udp_running, rx_task_handle>>
       ELSE /\ udp_running' = FALSE
            /\ rx_task_handle' = FALSE

\* packet.flags as udp_transport_send builds it
packet_flags(ptt_active, call_active) ==
    (IF ptt_active THEN PACKET_FLAG_PTT ELSE 0)
        + (IF call_active THEN PACKET_FLAG_CALL ELSE 0)

\* The audio_packet_t udp_transport_send builds, with packet_size as len.
\* The timestamp field is not kept.
build_packet(sequence, opus_data, opus_size, ptt_active, call_active) ==
    [sequence |-> sequence,
     opus_size |-> opus_size,
     flags |-> packet_flags(ptt_active, call_active),
     reserved |-> 0,
     opus_data |-> IF opus_size > 0 THEN opus_data ELSE NoData,
     len |-> HEADER_SIZE + opus_size]

\* udp_transport_send with tx_sequence++ ahead of the size test.
udp_transport_send_seq_first(opus_data, opus_size, ptt_active, call_active, sendto_errno) ==
    LET call == [udp_no_op EXCEPT !.op = "send", !.opus_data = opus_data,
                                  !.opus_size = opus_size,
                                  !.ptt_active = ptt_active,
                                  !.call_active = call_active]
    IN  /\ UNCHANGED <<udp_initialized, udp_running, sock, rx_task_handle,
                       user_rx_callback, last_rx_sequence, rx_loops,
                       last_packet_events>>
        /\ IF ~udp_initialized \/ sock < 0
           THEN /\ UNCHANGED <<stats, tx_sequence, tx_built>>
                /\ udp_op' = [call EXCEPT !.ret = ESP_FAIL]
           ELSE IF opus_size > OPUS_DATA_SIZE
           THEN /\ UNCHANGED <<stats, tx_built>>
                /\ tx_sequence' = u32_add(tx_sequence, u32(1))
                /\ udp_op' = [call EXCEPT !.ret = ESP_FAIL]
           ELSE LET packet == build_packet(tx_sequence, opus_data, opus_size,
                                           ptt_active, call_active)
                IN  /\ tx_sequence' = u32_add(tx_sequence, u32(1))
                    /\ tx_built' = Append(tx_built, packet.sequence)
                    /\ IF sendto_errno # 0
                       THEN /\ UNCHANGED stats
                            /\ udp_op' = [call EXCEPT !.ret = ESP_FAIL,
                                                      !.handed = TRUE,
                                                      !.packet = <<packet>>]
                       ELSE /\ stats' = [stats EXCEPT
                                           !.packets_sent = @ + 1,
                                           !.bytes_sent = @ + packet.len]
                            /\ udp_op' = [call EXCEPT !.handed = TRUE,
                                                      !.sent = TRUE,
                                                      !.packet = <<packet>>]

\* udp_transport_send with the statistics updated ahead of the sent < 0 test.
udp_transport_send_count_failed(opus_data, opus_size, ptt_active, call_active, sendto_errno) ==
    LET call == [udp_no_op EXCEPT !.op = "send", !.opus_data = opus_data,
                                  !.opus_size = opus_size,
                                  !.ptt_active = ptt_active,
                                  !.call_active = call_active]
    IN  /\ UNCHANGED <<udp_initialized, udp_running, sock, rx_task_handle,
                       user_rx_callback, last_rx_sequence, rx_loops,
                       last_packet_events>>
        /\ IF ~udp_initialized \/ sock < 0
           THEN /\ UNCHANGED <<stats, tx_sequence, tx_built>>
                /\ udp_op' = [call EXCEPT !.ret = ESP_FAIL]
           ELSE IF opus_size > OPUS_DATA_SIZE
           THEN /\ UNCHANGED <<stats, tx_sequence, tx_built>>
                /\ udp_op' = [call EXCEPT !.ret = ESP_FAIL]
           ELSE LET packet == build_packet(tx_sequence, opus_data, opus_size,
                                           ptt_active, call_active)
                IN  /\ tx_sequence' = u32_add(tx_sequence, u32(1))
                    /\ tx_built' = Append(tx_built, packet.sequence)
                    /\ stats' = [stats EXCEPT
                                   !.packets_sent = @ + 1,
                                   !.bytes_sent = @ + packet.len]
                    /\ IF sendto_errno # 0
                       THEN udp_op' = [call EXCEPT !.ret = ESP_FAIL,
                                                   !.handed = TRUE,
                                                   !.packet = <<packet>>]
                       ELSE udp_op' = [call EXCEPT !.handed = TRUE,
                                                   !.sent = TRUE,
                                                   !.packet = <<packet>>]

\* esp_err_t udp_transport_send(opus_data, opus_size, ptt_active,
\* call_active); sendto_errno is 0 when sendto succeeds (it then returns
\* packet_size) and the errno of the failure otherwise.
udp_transport_send(opus_data, opus_size, ptt_active, call_active, sendto_errno) ==
    LET call == [udp_no_op EXCEPT !.op = "send", !.opus_data = opus_data,
                                  !.opus_size = opus_size,
                                  !.ptt_active = ptt_active,
                                  !.call_active = call_active]
    IN  /\ UNCHANGED <<udp_initialized, udp_running, sock, rx_task_handle,
                       user_rx_callback, last_rx_sequence, rx_loops,
                       last_packet_events>>
        /\ IF ~udp_initialized \/ sock < 0
           THEN /\ UNCHANGED <<stats, tx_sequence, tx_built>>
                /\ udp_op' = [call EXCEPT !.ret = ESP_FAIL]
           ELSE IF opus_size > OPUS_DATA_SIZE
           THEN /\ UNCHANGED <<stats, tx_sequence, tx_built>>
                /\ udp_op' = [call EXCEPT !.ret = ESP_FAIL]
           ELSE LET packet == build_packet(tx_sequence, opus_data, opus_size,
                                           ptt_active, call_active)
                IN  /\ tx_sequence' = u32_add(tx_sequence, u32(1))
                    /\ tx_built' = Append(tx_built, packet.sequence)
                    /\ IF sendto_errno # 0
                       THEN /\ UNCHANGED stats
                            /\ udp_op' = [call EXCEPT !.ret = ESP_FAIL,
                                                      !.handed = TRUE,
                                                      !.packet = <<packet>>]
                       ELSE /\ stats' = [stats EXCEPT
                                           !.packets_sent = @ + 1,
                                           !.bytes_sent = @ + packet.len]
                            /\ udp_op' = [call EXCEPT !.handed = TRUE,
                                                      !.sent = TRUE,
                                                      !.packet = <<packet>>]

\* void udp_transport_get_stats(udp_stats_t *stats_out)
udp_transport_get_stats ==
    /\ UNCHANGED <<udp_initialized, udp_running, sock, rx_task_handle,
                   user_rx_callback, stats, tx_sequence, last_rx_sequence,
                   rx_loops, last_packet_events, tx_built>>
    /\ udp_op' = [udp_no_op EXCEPT !.op = "get_stats", !.out = <<stats>>]

\* void udp_transport_reset_stats(void)
udp_transport_reset_stats ==
    /\ UNCHANGED <<udp_initialized, udp_running, sock, rx_task_handle,
                   user_rx_callback, rx_loops, last_packet_events, tx_built>>
    /\ stats' = stats_zero
    /\ tx_sequence' = u32(0)
    /\ last_rx_sequence' = u32(0)
    /\ udp_op' = [udp_no_op EXCEPT !.op = "reset_stats"]

\* (flags & bit) != 0 for a one-bit mask
flag_set(flags, bit) == (flags \div bit) % 2 = 1

\* errno of a recvfrom that timed out (SO_RCVTIMEO, 100 ms)
EAGAIN == 11
EBADF == 9

\* What recvfrom leaves behind: its return value len, errno when len < 0,
\* and the bytes of rx_buffer read as an audio_packet_t.  origin is the
\* record of the udp_transport_send call the datagram came from, when the
\* specification follows the sender.
recv_result(len, errno, sequence, opus_size, flags, reserved, opus_data) ==
    [len |-> len, errno |-> errno, sequence |-> sequence,
     opus_size |-> opus_size, flags |-> flags, reserved |-> reserved,
     opus_data |-> opus_data, origin |-> <<>>]

\* recvfrom returning the datagram a udp_transport_send call handed to
\* sendto.
recv_sent(call) ==
    [recv_result(call.packet[1].len, 0, call.packet[1].sequence,
                 call.packet[1].opus_size, call.packet[1].flags,
                 call.packet[1].reserved, call.packet[1].opus_data)
        EXCEPT !.origin = <<call>>]

\* The arguments of user_rx_callback(packet->opus_data, packet->opus_size,
\* ptt_active, call_active).  opus_data is the datagram's payload when the
\* datagram holds opus_size bytes of it, and otherwise runs into bytes of
\* rx_buffer the datagram did not write.
rx_callback_args(recv) ==
    [opus_data |-> IF recv.opus_size <= recv.len - HEADER_SIZE
                   THEN recv.opus_data
                   ELSE "stale_buffer",
     opus_size |-> recv.opus_size,
     ptt_active |-> flag_set(recv.flags, PACKET_FLAG_PTT),
     call_active |-> flag_set(recv.flags, PACKET_FLAG_CALL)]

\* rx_account expecting last_rx_sequence itself, not its successor.
rx_account_expects_last(recv) ==
    LET received == stats.packets_received + 1
        expected_seq == last_rx_sequence
        lost == IF received > 1 /\ u32_gt(recv.sequence, expected_seq)
                THEN u32_add(stats.packets_lost,
                             u32_sub(recv.sequence, expected_seq))
                ELSE stats.packets_lost
        total == u32_add(u32(received), lost)
    IN  [stats EXCEPT !.packets_received = received,
                      !.bytes_received = @ + recv.len,
                      !.packets_lost = lost,
                      !.packet_loss_percent =
                          IF u32_gt(total, u32(0)) THEN <<lost, total>>
                          ELSE @]

\* rx_account counting the datagram in the sender's counters as well.
rx_account_sent_side(recv) ==
    LET received == stats.packets_received + 1
        expected_seq == u32_add(last_rx_sequence, u32(1))
        lost == IF received > 1 /\ u32_gt(recv.sequence, expected_seq)
                THEN u32_add(stats.packets_lost,
                             u32_sub(recv.sequence, expected_seq))
                ELSE stats.packets_lost
        total == u32_add(u32(received), lost)
    IN  [stats EXCEPT !.packets_received = received,
                      !.bytes_received = @ + recv.len,
                      !.packets_sent = @ + 1,
                      !.packets_lost = lost,
                      !.packet_loss_percent =
                          IF u32_gt(total, u32(0)) THEN <<lost, total>>
                          ELSE @]

\* The statistics after a datagram with a whole header has been accounted.
rx_account(recv) ==
    LET received == stats.packets_received + 1
        expected_seq == u32_add(last_rx_sequence, u32(1))
        lost == IF received > 1 /\ u32_gt(recv.sequence, expected_seq)
                THEN u32_add(stats.packets_lost,
                             u32_sub(recv.sequence, expected_seq))
                ELSE stats.packets_lost
        total == u32_add(u32(received), lost)
    IN  [stats EXCEPT !.packets_received = received,
                      !.bytes_received = @ + recv.len,
                      !.packets_lost = lost,
                      !.packet_loss_percent =
                          IF u32_gt(total, u32(0)) THEN <<lost, total>>
                          ELSE @]

\* One iteration of udp_rx_task's loop without the length test: every
\* datagram of one byte or more is accounted and delivered.
udp_rx_iteration_no_length_test(recv) ==
    /\ rx_loops > 0
    /\ udp_running
    /\ UNCHANGED <<udp_initialized, udp_running, sock, rx_task_handle,
                   user_rx_callback, tx_sequence, rx_loops>>
    /\ IF recv.len < 0
       THEN /\ UNCHANGED <<stats, last_rx_sequence, last_packet_events>>
            /\ rx_op' = [kind |-> IF recv.errno = EAGAIN THEN "timeout"
                                  ELSE "error",
                         dgram |-> <<>>, calls |-> <<>>]
       ELSE IF recv.len = 0
       THEN /\ UNCHANGED <<stats, last_rx_sequence, last_packet_events>>
            /\ rx_op' = [kind |-> "empty", dgram |-> <<>>, calls |-> <<>>]
       ELSE /\ stats' = rx_account(recv)
            /\ last_rx_sequence' = recv.sequence
            /\ last_packet_events' = last_packet_events + 1
            /\ rx_op' = [kind |-> IF recv.len < HEADER_SIZE THEN "short"
                                  ELSE "packet",
                         dgram |-> <<recv>>,
                         calls |-> IF user_rx_callback /\ recv.opus_size > 0
                                   THEN <<rx_callback_args(recv)>>
                                   ELSE <<>>]

\* One iteration of udp_rx_task's while (running) loop; recv is what
\* recvfrom returned.
udp_rx_iteration(recv) ==
    /\ rx_loops > 0
    /\ udp_running
    /\ UNCHANGED <<udp_initialized, udp_running, sock, rx_task_handle,
                   user_rx_callback, tx_sequence, rx_loops>>
    /\ IF recv.len < 0
       THEN /\ UNCHANGED <<stats, last_rx_sequence, last_packet_events>>
            /\ rx_op' = [kind |-> IF recv.errno = EAGAIN THEN "timeout"
                                  ELSE "error",
                         dgram |-> <<>>, calls |-> <<>>]
       ELSE IF recv.len = 0
       THEN /\ UNCHANGED <<stats, last_rx_sequence, last_packet_events>>
            /\ rx_op' = [kind |-> "empty", dgram |-> <<>>, calls |-> <<>>]
       ELSE IF recv.len < HEADER_SIZE
       THEN /\ UNCHANGED <<stats, last_rx_sequence, last_packet_events>>
            /\ rx_op' = [kind |-> "short", dgram |-> <<recv>>,
                         calls |-> <<>>]
       ELSE /\ stats' = rx_account(recv)
            /\ last_rx_sequence' = recv.sequence
            /\ last_packet_events' = last_packet_events + 1
            /\ rx_op' = [kind |-> "packet", dgram |-> <<recv>>,
                         calls |-> IF user_rx_callback /\ recv.opus_size > 0
                                   THEN <<rx_callback_args(recv)>>
                                   ELSE <<>>]

\* Sequence numbers of the datagrams the network delivers.
RxSequences == {u32(0), u32(1), u32(2), u32(5), u32(6), U32_MAX}

\* Datagrams with a whole header: one byte of payload with the PTT flag, an
\* empty payload with the call flag, a full payload with both flags, and a
\* header announcing five bytes of payload that did not arrive.
ValidDatagrams ==
    {recv_result(HEADER_SIZE + 1, 0, seq, 1, PACKET_FLAG_PTT, 0, "frame_a") :
         seq \in RxSequences}
    \cup {recv_result(HEADER_SIZE, 0, u32(1), 0, PACKET_FLAG_CALL, 0, NoData),
          recv_result(HEADER_SIZE + OPUS_DATA_SIZE, 0, u32(2), OPUS_DATA_SIZE,
                      PACKET_FLAG_PTT + PACKET_FLAG_CALL, 0, "frame_b"),
          recv_result(HEADER_SIZE, 0, u32(5), 5, PACKET_FLAG_PTT, 0, NoData)}

\* Datagrams shorter than the header; the fields past len are what an
\* earlier datagram left in rx_buffer.
ShortDatagrams ==
    {recv_result(len, 0, U32_MAX, 1, PACKET_FLAG_PTT, 0, "frame_a") :
         len \in {1, HEADER_SIZE - 1}}

\* recvfrom returning without a datagram: timeout, error, empty datagram.
IdleResults ==
    {recv_result(-1, EAGAIN, u32(0), 0, 0, 0, NoData),
     recv_result(-1, EBADF, u32(0), 0, 0, 0, NoData),
     recv_result(0, 0, u32(0), 0, 0, 0, NoData)}

\* udp_rx_task leaving its while (running) loop: the task logs, deletes
\* itself and is gone.
udp_rx_exit ==
    /\ rx_loops > 0
    /\ ~udp_running
    /\ rx_loops' = rx_loops - 1
    /\ rx_op' = [rx_no_op EXCEPT !.kind = "exit"]
    /\ UNCHANGED <<udp_initialized, udp_running, sock, rx_task_handle,
                   user_rx_callback, stats, tx_sequence, last_rx_sequence,
                   last_packet_events>>

\* ------------------------- udp_rx_task statement by statement
\* stats is a bare static struct: udp_rx_task updates it one field at a
\* time and udp_transport_get_stats, called from another task, copies it
\* without a lock.  Each statement of the accounting is a step of its own.
acct_at_init ==
    /\ acct_pc = "recv"
    /\ acct_cur = <<>>
    /\ acct_before = stats_zero
    /\ acct_after = stats_zero
    /\ acct_reads = 0

\* recvfrom returns a datagram with a whole header; the accounting begins.
acct_recv(recv) ==
    /\ acct_pc = "recv"
    /\ rx_loops > 0
    /\ udp_running
    /\ recv.len >= HEADER_SIZE
    /\ acct_pc' = "received"
    /\ acct_cur' = <<recv>>
    /\ acct_before' = stats
    /\ acct_after' = rx_account(recv)
    /\ UNCHANGED <<stats, last_rx_sequence, last_packet_events, rx_op>>

\* stats.packets_received++
acct_count_packet ==
    /\ acct_pc = "received"
    /\ stats' = [stats EXCEPT !.packets_received = @ + 1]
    /\ acct_pc' = "bytes"
    /\ UNCHANGED <<acct_cur, acct_before, acct_after, last_rx_sequence,
                   last_packet_events, rx_op>>

\* stats.bytes_received += len
acct_count_bytes ==
    /\ acct_pc = "bytes"
    /\ stats' = [stats EXCEPT !.bytes_received = @ + acct_cur[1].len]
    /\ acct_pc' = "lost"
    /\ UNCHANGED <<acct_cur, acct_before, acct_after, last_rx_sequence,
                   last_packet_events, rx_op>>

\* if (stats.packets_received > 1) { ... stats.packets_lost += lost; }
acct_count_lost ==
    /\ acct_pc = "lost"
    /\ LET expected_seq == u32_add(last_rx_sequence, u32(1))
       IN  stats' = IF /\ stats.packets_received > 1
                       /\ u32_gt(acct_cur[1].sequence, expected_seq)
                    THEN [stats EXCEPT !.packets_lost =
                              u32_add(@, u32_sub(acct_cur[1].sequence,
                                                 expected_seq))]
                    ELSE stats
    /\ acct_pc' = "last"
    /\ UNCHANGED <<acct_cur, acct_before, acct_after, last_rx_sequence,
                   last_packet_events, rx_op>>

\* last_rx_sequence = packet->sequence
acct_store_last ==
    /\ acct_pc = "last"
    /\ last_rx_sequence' = acct_cur[1].sequence
    /\ acct_pc' = "percent"
    /\ UNCHANGED <<acct_cur, acct_before, acct_after, stats,
                   last_packet_events, rx_op>>

\* total = packets_received + packets_lost; if (total > 0) the percentage
acct_percent ==
    /\ acct_pc = "percent"
    /\ LET total == u32_add(u32(stats.packets_received), stats.packets_lost)
       IN  stats' = IF u32_gt(total, u32(0))
                    THEN [stats EXCEPT !.packet_loss_percent =
                              <<stats.packets_lost, total>>]
                    ELSE stats
    /\ acct_pc' = "deliver"
    /\ UNCHANGED <<acct_cur, acct_before, acct_after, last_rx_sequence,
                   last_packet_events, rx_op>>

\* The flags, device_manager_packet_received(), the callback; the loop is
\* back at recvfrom.
acct_deliver ==
    /\ acct_pc = "deliver"
    /\ last_packet_events' = last_packet_events + 1
    /\ rx_op' = [kind |-> "packet", dgram |-> acct_cur,
                 calls |-> IF user_rx_callback /\ acct_cur[1].opus_size > 0
                           THEN <<rx_callback_args(acct_cur[1])>>
                           ELSE <<>>]
    /\ acct_pc' = "recv"
    /\ acct_cur' = <<>>
    /\ acct_before' = stats
    /\ acct_after' = stats
    /\ UNCHANGED <<stats, last_rx_sequence>>

\* ======================================================= audio_processor.c
\* No function has been called.
proc_at_init ==
    /\ proc_in = [fn |-> "none"]
    /\ proc_out = <<>>

\* int16_t: the value an int expression has once stored in an int16_t.
INT16_MIN == -32768
INT16_MAX == 32767
to_int16(v) == ((v - INT16_MIN) % 65536) + INT16_MIN

\* C integer division truncates toward zero.
c_div(a, b) == IF a >= 0 THEN a \div b ELSE -((-a) \div b)

abs(v) == IF v < 0 THEN -v ELSE v

\* A float is <<mant, exp>>, worth mant * 2^exp, with mant = 0 or
\* 2^23 <= |mant| < 2^24 (IEEE-754 single precision).
FLOAT_NEG_0_5 == <<-8388608, -24>>
FLOAT_0_0 == <<0, 0>>
FLOAT_0_3 == <<10066330, -25>>
FLOAT_0_5 == <<8388608, -24>>
FLOAT_0_95 == <<15938355, -24>>
FLOAT_1_0 == <<8388608, -23>>
FLOAT_1_5 == <<12582912, -23>>

float_gt_0(f) == f[1] > 0
float_lt_0(f) == f[1] < 0
float_gt_1(f) == f[1] > 0 /\ f[1] > 2^(-f[2])

RECURSIVE BitLen(_)
BitLen(n) == IF n = 0 THEN 0 ELSE 1 + BitLen(n \div 2)

\* (int32_t)(s * f) for an integer 0 <= s <= 32768 and a float f in [0, 1]:
\* the product s * mant, kept in two parts H * 2^12 + L, is rounded to 24
\* significant bits (nearest, ties to even) and the float it makes is
\* truncated to an integer.
float_mul_trunc(s, f) ==
    LET mant == f[1]
        exp == f[2]
        u == s * (mant \div 4096)
        v == s * (mant % 4096)
        H == u + (v \div 4096)
        L == v % 4096
        d == BitLen(H) + 12 - 24
        q == IF d <= 12 THEN H * 2^(12 - d) + (L \div 2^d)
             ELSE H \div 2^(d - 12)
        rem == IF d <= 12 THEN L % 2^d
               ELSE (H % 2^(d - 12)) * 4096 + L
        half == 2^(d - 1)
        R == IF rem > half \/ (rem = half /\ q % 2 = 1) THEN q + 1 ELSE q
    IN  IF mant = 0 \/ s = 0 THEN 0
        ELSE IF H < 4096 THEN (H * 4096 + L) \div 2^(-exp)
        ELSE R \div 2^(-(d + exp))

\* 1.0f - f for a float f > 0: the difference, counted in units of 2^exp,
\* brought to 24 significant bits (nearest, ties to even).
float_one_minus(f) ==
    LET N == 2^(-f[2]) - f[1]
        d == BitLen(abs(N)) - 24
        q == abs(N) \div 2^d
        rem == abs(N) % 2^d
        R == IF rem > 2^(d - 1) \/ (rem = 2^(d - 1) /\ q % 2 = 1)
             THEN q + 1 ELSE q
        sign == IF N < 0 THEN -1 ELSE 1
    IN  IF N = 0 THEN FLOAT_0_0
        ELSE IF d <= 0 THEN <<N * 2^(-d), f[2] + d>>
        ELSE IF R = 2^24 THEN <<sign * 2^23, f[2] + d + 1>>
        ELSE <<sign * R, f[2] + d>>

\* static inline int16_t clamp_sample(int32_t sample)
clamp_sample(sample) ==
    IF sample > INT16_MAX THEN INT16_MAX
    ELSE IF sample < INT16_MIN THEN INT16_MIN
    ELSE sample

\* (int32_t)(sample * mix) for an int16_t sample and a mix level in [0, 1]
scaled_sample(sample, mix) ==
    IF sample < 0 THEN -float_mul_trunc(-sample, mix)
    ELSE float_mul_trunc(sample, mix)

\* void audio_processor_mix(stream1, stream2, output, sample_count, mix1,
\*                          mix2): the output buffer.
audio_processor_mix(stream1, stream2, mix1, mix2) ==
    LET clamped(mix) == IF float_gt_1(mix) THEN FLOAT_1_0
                        ELSE IF float_lt_0(mix) THEN FLOAT_0_0
                        ELSE mix
    IN  [i \in 1..Len(stream1) |->
            clamp_sample(scaled_sample(stream1[i], clamped(mix1))
                         + scaled_sample(stream2[i], clamped(mix2)))]

\* audio_processor_sidetone mixing the microphone in whatever ptt_active is.
audio_processor_sidetone_ungated(mic_in, audio_in, sidetone_level, ptt_active, pack_build) ==
    IF pack_build /\ float_gt_0(sidetone_level)
    THEN audio_processor_mix(audio_in, mic_in,
                             float_one_minus(sidetone_level), sidetone_level)
    ELSE audio_in

\* void audio_processor_sidetone(mic_in, audio_in, output, sample_count,
\*                               sidetone_level, ptt_active): the output
\* buffer.  pack_build is DEVICE_TYPE_PACK && SIDETONE_ENABLE of the build.
audio_processor_sidetone(mic_in, audio_in, sidetone_level, ptt_active, pack_build) ==
    IF pack_build /\ ptt_active /\ float_gt_0(sidetone_level)
    THEN audio_processor_mix(audio_in, mic_in,
                             float_one_minus(sidetone_level), sidetone_level)
    ELSE audio_in

\* #define ENABLE_AUDIO_LIMITER 1
ENABLE_AUDIO_LIMITER == TRUE

\* The limiter on one sample, with the excess divided as / divides.
limit_sample(sample, threshold_value) ==
    IF sample > threshold_value
    THEN LET excess == to_int16(sample - threshold_value)
         IN  to_int16(threshold_value + c_div(excess, 4))
    ELSE IF sample < -threshold_value
    THEN LET excess == to_int16(sample + threshold_value)
         IN  to_int16(-threshold_value + c_div(excess, 4))
    ELSE sample

\* audio_processor_limit with the excess divided rounding down.
audio_processor_limit_floor(buffer, threshold) ==
    LET threshold_value == to_int16(float_mul_trunc(INT16_MAX, threshold))
    IN  IF ~ENABLE_AUDIO_LIMITER THEN buffer
        ELSE [i \in 1..Len(buffer) |->
                 IF buffer[i] > threshold_value
                 THEN to_int16(threshold_value
                               + ((buffer[i] - threshold_value) \div 4))
                 ELSE IF buffer[i] < -threshold_value
                 THEN to_int16(-threshold_value
                               + ((buffer[i] + threshold_value) \div 4))
                 ELSE buffer[i]]

\* void audio_processor_limit(int16_t *buffer, size_t sample_count,
\*                            float threshold), threshold within [0, 1]:
\* the buffer as the call leaves it.
audio_processor_limit(buffer, threshold) ==
    LET threshold_value == to_int16(float_mul_trunc(INT16_MAX, threshold))
    IN  IF ~ENABLE_AUDIO_LIMITER THEN buffer
        ELSE [i \in 1..Len(buffer) |->
                 limit_sample(buffer[i], threshold_value)]

\* =========================================================== diagnostics.c
\* test_result_t
TEST_NOT_RUN == "TEST_NOT_RUN"
TEST_PASS == "TEST_PASS"
TEST_FAIL == "TEST_FAIL"
TEST_SKIP == "TEST_SKIP"

\* result_array of diagnostics_run_self_test: the ten results it counts.
result_array ==
    {"codec_i2c", "codec_audio", "opus_encode", "opus_decode", "wifi", "udp",
     "battery_adc", "gpio_buttons", "gpio_leds", "nvs"}

\* esp_err_t diagnostics_run_self_test(diagnostics_result_t *results) in a
\* build with the given SIMULATE_HARDWARE and DEVICE_TYPE_PACK; encoded,
\* decoded and nvs_ret are what audio_opus_encode, audio_opus_decode and
\* nvs_open return.  The call either returns ret or stays in its
\* while (1) loop for good (halted).
diagnostics_run_self_test(results_null, simulate_hardware, device_type_pack, encoded, decoded, nvs_ret) ==
    LET hardware == IF simulate_hardware THEN TEST_SKIP ELSE TEST_PASS
        pack_only == IF simulate_hardware \/ ~device_type_pack
                     THEN TEST_SKIP ELSE TEST_PASS
        tests == [codec_i2c |-> hardware,
                  codec_audio |-> hardware,
                  battery_adc |-> pack_only,
                  gpio_buttons |-> pack_only,
                  gpio_leds |-> hardware,
                  opus_encode |-> IF encoded > 0 THEN TEST_PASS
                                  ELSE TEST_FAIL,
                  opus_decode |-> IF decoded > 0 THEN TEST_PASS
                                  ELSE TEST_FAIL,
                  wifi |-> TEST_PASS,
                  udp |-> TEST_PASS,
                  nvs |-> IF nvs_ret = ESP_OK THEN TEST_PASS ELSE TEST_FAIL]
        pass_count == Cardinality({t \in result_array : tests[t] = TEST_PASS})
        fail_count == Cardinality({t \in result_array : tests[t] = TEST_FAIL})
        total_count ==
            Cardinality({t \in result_array : tests[t] # TEST_SKIP})
        all_passed == fail_count = 0
    IN  IF results_null
        THEN [halted |-> FALSE, ret |-> ESP_FAIL, results |-> <<>>]
        ELSE [halted |-> ~all_passed /\ ~simulate_hardware,
              ret |-> IF all_passed THEN ESP_OK ELSE ESP_FAIL,
              results |-> <<[tests |-> tests, pass_count |-> pass_count,
                             fail_count |-> fail_count,
                             total_count |-> total_count,
                             all_passed |-> all_passed]>>]

\* ==================================================================== main.c
\* The record kept of a cycle of network_test_task: what the PTT and call
\* modules answered when the cycle ran, the flags the cycle computed and
\* the statistics it logged.
net_no_op ==
    [kind |-> "none", transmitting |-> FALSE, calling |-> FALSE,
     ptt |-> FALSE, call |-> FALSE, ret |-> ESP_OK, logged |-> <<>>]

\* static void udp_rx_cb(opus_data, opus_size, ptt_active, call_active):
\* the callback app_main gives to udp_transport_init.  It logs its arguments
\* at debug level and returns.
udp_rx_cb(opus_data, opus_size, ptt_active, call_active) ==
    UNCHANGED <<pttVars, callVars>>

\* uint8_t test_opus_data[60]
TEST_OPUS_SIZE == 60

\* The record kept of a pass of audio_test_task's loop: what the encoder
\* and the decoder returned, and the vTaskDelay the pass ended with.
audio_no_op ==
    [kind |-> "none", encoded_bytes |-> 0, decoded_samples |-> 0,
     delay_ms |-> 0]

\* #define FRAME_SIZE_MS 20; 16 kHz gives 320 samples a frame.
FRAME_SIZE_MS == 20
SAMPLES_PER_FRAME == 320
\* vTaskDelay(pdMS_TO_TICKS(1000)) after a failed encode or decode
AUDIO_RETRY_MS == 1000

\* What audio_opus_encode and audio_opus_decode return: -1 or a negative
\* Opus error, or the bytes encoded / the samples decoded.
EncodeResults == {-1, TEST_OPUS_SIZE}
DecodeResults == {-4, SAMPLES_PER_FRAME}

TestTasks == {"net_test", "audio_test"}

\* device_state_t
DEVICE_STATE_INIT == "DEVICE_STATE_INIT"
DEVICE_STATE_CONNECTED == "DEVICE_STATE_CONNECTED"
DEVICE_STATE_DISCONNECTED == "DEVICE_STATE_DISCONNECTED"
DEVICE_STATE_ERROR == "DEVICE_STATE_ERROR"

\* The statics of device_manager.c before device_manager_init: device_info
\* is zero-filled, and DEVICE_STATE_INIT is the enumeration's zero.  The
\* build is a belt pack with light sleep enabled.
dm_at_init ==
    /\ dm_initialized = FALSE
    /\ device_state = DEVICE_STATE_INIT
    /\ last_packet_time = 0
    /\ dm_pack_sleep = TRUE
    /\ timer_us = 0
    /\ dm_ticks = 0
    /\ dm_last_valid = 0
    /\ wifi_link = "none"
    /\ main_pc = "boot"

app_at_init ==
    /\ test_count = 0
    /\ net_op = net_no_op
    /\ task_pc = [t \in TestTasks |-> "loop"]
    /\ audio_passes = 0
    /\ audio_test_count = 0
    /\ audio_op = audio_no_op

\* One pass of audio_test_task's while (1) loop.  A failed encode or decode
\* is logged and the pass ends with a one-second delay and continue; a
\* pass that got through both counts the frame and ends with the frame
\* delay.  The one-off limiter and concealment tests only log.
audio_test_pass(encoded_bytes, decoded_samples) ==
    /\ task_pc["audio_test"] = "loop"
    /\ audio_passes' = audio_passes + 1
    /\ UNCHANGED <<task_pc, test_count, net_op>>
    /\ IF encoded_bytes < 0
       THEN /\ UNCHANGED audio_test_count
            /\ audio_op' = [kind |-> "encode_failed",
                            encoded_bytes |-> encoded_bytes,
                            decoded_samples |-> 0,
                            delay_ms |-> AUDIO_RETRY_MS]
       ELSE IF decoded_samples < 0
       THEN /\ UNCHANGED audio_test_count
            /\ audio_op' = [kind |-> "decode_failed",
                            encoded_bytes |-> encoded_bytes,
                            decoded_samples |-> decoded_samples,
                            delay_ms |-> AUDIO_RETRY_MS]
       ELSE /\ audio_test_count' = audio_test_count + 1
            /\ audio_op' = [kind |-> "frame",
                            encoded_bytes |-> encoded_bytes,
                            decoded_samples |-> decoded_samples,
                            delay_ms |-> FRAME_SIZE_MS]

\* network_test_task leaving its loop when the send fails.
network_test_cycle_ends_on_failure(sendto_errno) ==
    LET ptt == (test_count % 100) < 50
        call == (test_count % 200) < 20
    IN  /\ task_pc["net_test"] = "loop"
        /\ udp_transport_send("frame_a", TEST_OPUS_SIZE, ptt, call,
                              sendto_errno)
        /\ task_pc' = IF udp_op'.ret = ESP_OK THEN task_pc
                      ELSE [task_pc EXCEPT !["net_test"] = "exited"]
        /\ test_count' = test_count + 1
        /\ net_op' = [kind |-> "cycle",
                      transmitting |-> ptt_control_is_transmitting,
                      calling |-> call_module_is_calling,
                      ptt |-> ptt, call |-> call, ret |-> udp_op'.ret,
                      logged |-> IF test_count' % 50 = 0 THEN <<stats'>>
                                 ELSE <<>>]
        /\ UNCHANGED <<audio_passes, audio_test_count, audio_op>>

\* One pass of network_test_task's while (1) loop: the synthetic flags, the
\* send, the statistics log every 50th frame, and the 20 ms delay after
\* which the loop is at its top again.
network_test_cycle(sendto_errno) ==
    LET ptt == (test_count % 100) < 50
        call == (test_count % 200) < 20
    IN  /\ task_pc["net_test"] = "loop"
        /\ UNCHANGED <<task_pc, audio_passes, audio_test_count, audio_op>>
        /\ udp_transport_send("frame_a", TEST_OPUS_SIZE, ptt, call,
                              sendto_errno)
        /\ test_count' = test_count + 1
        /\ net_op' = [kind |-> "cycle",
                      transmitting |-> ptt_control_is_transmitting,
                      calling |-> call_module_is_calling,
                      ptt |-> ptt, call |-> call, ret |-> udp_op'.ret,
                      logged |-> IF test_count' % 50 = 0 THEN <<stats'>>
                                 ELSE <<>>]

\* The state the other specifications start in and leave alone.
rest_at_init ==
    /\ conc_at_init
    /\ udp_transport_init(TRUE)
    /\ acct_at_init
    /\ app_at_init
    /\ dm_at_init
    /\ proc_at_init

\* ------------------------------------------------- the PTT machine alone
\* Any caller may deliver any (pressed, hold_time_ms) pair.
PttButtonEvent ==
    /\ Len(ptt_events) < MaxPttEvents
    /\ \E pressed \in BOOLEAN, hold_time_ms \in HoldTimes :
           ptt_control_button_event(pressed, hold_time_ms)
    /\ UNCHANGED <<callVars, gpioVars, pinVars, restVars>>

InitPtt ==
    /\ \E callback \in BOOLEAN : ptt_control_init(callback)
    /\ call_module_init(TRUE)
    /\ gpio_control_init(TRUE, TRUE)
    /\ debounce_ms \in DebounceValues
    /\ pins_released
    /\ rest_at_init

NextPtt == PttButtonEvent

SpecPtt == InitPtt /\ [][NextPtt]_vars

\* ------------------------------------------------- the call module alone
\* Calls are made one at a time, in any order, with any argument.
CallButtonEvent ==
    /\ Len(call_ops) < MaxCallOps
    /\ \E pressed \in BOOLEAN : call_module_button_event(pressed)
    /\ UNCHANGED <<pttVars, gpioVars, pinVars, restVars>>

CallRemoteSignal ==
    /\ Len(call_ops) < MaxCallOps
    /\ \E remote_calling_new \in BOOLEAN :
           call_module_remote_signal(remote_calling_new)
    /\ UNCHANGED <<pttVars, gpioVars, pinVars, restVars>>

CallClear ==
    /\ Len(call_ops) < MaxCallOps
    /\ call_module_clear
    /\ UNCHANGED <<pttVars, gpioVars, pinVars, restVars>>

InitCall ==
    /\ ptt_control_init(TRUE)
    /\ \E callback \in BOOLEAN : call_module_init(callback)
    /\ gpio_control_init(TRUE, TRUE)
    /\ debounce_ms \in DebounceValues
    /\ pins_released
    /\ rest_at_init

NextCall == CallButtonEvent \/ CallRemoteSignal \/ CallClear

SpecCall == InitCall /\ [][NextCall]_vars

\* ------------------------------------------------- the call module, two tasks
ConcFrame ==
    UNCHANGED <<pttVars, gpioVars, pinVars, udpVars, acctVars, appVars,
                procVars, dmVars,
                call_user_callback, call_ops, call_prev, call_notes>>

\* The button monitor delivers confirmed changes only: press, release,
\* press, ...
ConcButtonEvent ==
    /\ cc_calls[ButtonTask] < MaxConcCalls
    /\ conc_button_store(~cc_arg[ButtonTask])
    /\ ConcFrame

ConcRemoteSignal ==
    /\ cc_calls[RxTask] < MaxConcCalls
    /\ \E remote_calling_new \in BOOLEAN : conc_remote_test(remote_calling_new)
    /\ ConcFrame

ConcRemoteStore == conc_remote_store /\ ConcFrame
ConcLoadLocal == (\E t \in CallTasks : conc_load_local(t)) /\ ConcFrame
ConcLoadRemote == (\E t \in CallTasks : conc_load_remote(t)) /\ ConcFrame
ConcCompare == (\E t \in CallTasks : conc_compare(t)) /\ ConcFrame
ConcStoreState == (\E t \in CallTasks : conc_store_state(t)) /\ ConcFrame

InitCallConc ==
    /\ ptt_control_init(TRUE)
    /\ call_module_init(TRUE)
    /\ gpio_control_init(TRUE, TRUE)
    /\ debounce_ms \in DebounceValues
    /\ pins_released
    /\ rest_at_init

NextCallConc ==
    \/ ConcButtonEvent
    \/ ConcRemoteSignal
    \/ ConcRemoteStore
    \/ ConcLoadLocal
    \/ ConcLoadRemote
    \/ ConcCompare
    \/ ConcStoreState

SpecCallConc == InitCallConc /\ [][NextCallConc]_vars

\* ------------------------------------------------- buttons to state machines
\* The pins change level at any moment; the monitor task runs its loop.
PttPinEdge ==
    /\ now_ms < MaxClock
    /\ ptt_edges < MaxPttEdges
    /\ ptt_isr_handler
    /\ UNCHANGED <<pttVars, callVars, restVars>>

CallPinEdge ==
    /\ now_ms < MaxClock
    /\ call_edges < MaxCallEdges
    /\ call_isr_handler
    /\ UNCHANGED <<pttVars, callVars, restVars>>

MonitorPollPtt ==
    now_ms < MaxClock /\ monitor_poll_ptt /\ UNCHANGED restVars
MonitorConfirmPtt ==
    now_ms < MaxClock /\ monitor_confirm_ptt /\ UNCHANGED restVars
MonitorCheckHold ==
    now_ms < MaxClock /\ monitor_check_hold /\ UNCHANGED restVars
MonitorPollCall ==
    now_ms < MaxClock /\ monitor_poll_call /\ UNCHANGED restVars
MonitorConfirmCall ==
    now_ms < MaxClock /\ monitor_confirm_call /\ UNCHANGED restVars
MonitorSleep ==
    now_ms < MaxClock /\ monitor_sleep /\ UNCHANGED restVars

InitButton ==
    /\ ptt_control_init(TRUE)
    /\ call_module_init(TRUE)
    /\ gpio_control_init(TRUE, TRUE)
    /\ debounce_ms \in DebounceValues
    /\ pins_released
    /\ rest_at_init

NextButton ==
    \/ PttPinEdge
    \/ CallPinEdge
    \/ MonitorPollPtt
    \/ MonitorConfirmPtt
    \/ MonitorCheckHold
    \/ MonitorPollCall
    \/ MonitorConfirmCall
    \/ MonitorSleep

SpecButton == InitButton /\ [][NextButton]_vars

\* ------------------------------------------------- the transport, sending
UdpFrame ==
    UNCHANGED <<pttVars, callVars, gpioVars, pinVars, concVars, acctVars,
                appVars, procVars, dmVars>>

\* Any caller may pass any payload size and flag pair; sendto may fail.  The
\* datagram goes to the peer, which this specification does not follow.
UdpSend ==
    /\ tx_calls < MaxSends
    /\ \E opus_data \in DataTags, opus_size \in PayloadSizes,
          ptt_active \in BOOLEAN, call_active \in BOOLEAN,
          sendto_errno \in SendtoErrnos :
           udp_transport_send(opus_data, opus_size, ptt_active, call_active,
                              sendto_errno)
    /\ tx_calls' = tx_calls + 1
    /\ udp_prev' = udp_snapshot
    /\ rx_op' = rx_no_op
    /\ UNCHANGED <<wire, rx_runs, rx_stream>>
    /\ UdpFrame

UdpCtlFrame ==
    /\ udp_prev' = udp_snapshot
    /\ rx_op' = rx_no_op
    /\ UNCHANGED <<wire, tx_calls>>
    /\ UdpFrame

UdpGetStats ==
    udp_transport_get_stats /\ UdpCtlFrame /\ UNCHANGED <<rx_stream, rx_runs>>

UdpResetStats ==
    udp_transport_reset_stats /\ UdpCtlFrame
        /\ UNCHANGED <<rx_stream, rx_runs>>

UdpStop ==
    udp_transport_stop /\ UdpCtlFrame /\ UNCHANGED <<rx_stream, rx_runs>>

\* When the call creates the receive task a run of the loop begins, and
\* rx_stream restarts with it.
UdpStart ==
    /\ rx_runs < MaxRuns
    /\ udp_transport_start
    /\ UdpCtlFrame
    /\ IF rx_loops' > rx_loops
       THEN /\ rx_runs' = rx_runs + 1
            /\ rx_stream' = rx_stream_none
       ELSE UNCHANGED <<rx_runs, rx_stream>>

UdpRxExit ==
    /\ udp_rx_exit
    /\ udp_prev' = udp_snapshot
    /\ udp_op' = udp_no_op
    /\ UNCHANGED <<wire, tx_built, tx_calls, rx_runs, rx_stream>>
    /\ UdpFrame

\* The transport reads nothing of the button monitor; one debounce value.
InitUdp ==
    /\ ptt_control_init(TRUE)
    /\ call_module_init(TRUE)
    /\ gpio_control_init(TRUE, TRUE)
    /\ debounce_ms = CHOOSE d \in DebounceValues : TRUE
    /\ pins_released
    /\ conc_at_init
    /\ udp_transport_init(TRUE)
    /\ acct_at_init
    /\ app_at_init
    /\ dm_at_init
    /\ proc_at_init

NextUdpTx ==
    \/ UdpSend
    \/ UdpGetStats
    \/ UdpResetStats
    \/ UdpStop
    \/ UdpStart
    \/ UdpRxExit

SpecUdpTx == InitUdp /\ [][NextUdpTx]_vars

\* ------------------------------------------------- the transport, receiving
UdpRxFrame ==
    /\ udp_prev' = udp_snapshot
    /\ udp_op' = udp_no_op
    /\ UNCHANGED <<wire, tx_built, tx_calls, rx_runs>>
    /\ UdpFrame

\* The network delivers a datagram that holds a whole header.
UdpRxValid ==
    /\ last_packet_events < MaxRx
    /\ \E recv \in ValidDatagrams :
           /\ udp_rx_iteration(recv)
           /\ rx_stream' = rx_stream_add(recv.sequence)
    /\ UdpRxFrame

\* The network delivers a datagram shorter than the header.
UdpRxShort ==
    /\ \E recv \in ShortDatagrams : udp_rx_iteration(recv)
    /\ UNCHANGED rx_stream
    /\ UdpRxFrame

\* recvfrom returns without a datagram.
UdpRxIdle ==
    /\ \E recv \in IdleResults : udp_rx_iteration(recv)
    /\ UNCHANGED rx_stream
    /\ UdpRxFrame

\* app_main starts the transport once.
UdpFirstStart == rx_runs = 0 /\ UdpStart

NextUdpRx ==
    \/ UdpFirstStart
    \/ UdpStop
    \/ UdpRxValid
    \/ UdpRxShort
    \/ UdpRxIdle
    \/ UdpRxExit

SpecUdpRx == InitUdp /\ [][NextUdpRx]_vars

\* ------------------------------------------------- the transport, both ways
\* The peer runs the same transport: what udp_transport_send hands to
\* sendto is what the receive loop's recvfrom returns, in the order sent,
\* unless the network loses it.
LoopPayloadSizes == {0, 1}

UdpLoopSend ==
    /\ tx_calls < MaxSends
    /\ \E opus_size \in LoopPayloadSizes,
          ptt_active \in BOOLEAN, call_active \in BOOLEAN,
          sendto_errno \in SendtoErrnos :
           udp_transport_send("frame_a", opus_size, ptt_active, call_active,
                              sendto_errno)
    /\ wire' = IF udp_op'.sent THEN Append(wire, udp_op') ELSE wire
    /\ tx_calls' = tx_calls + 1
    /\ udp_prev' = udp_snapshot
    /\ rx_op' = rx_no_op
    /\ UNCHANGED <<rx_runs, rx_stream>>
    /\ UdpFrame

UdpLoopDeliver ==
    /\ wire # <<>>
    /\ udp_rx_iteration(recv_sent(Head(wire)))
    /\ wire' = Tail(wire)
    /\ rx_stream' = rx_stream_add(Head(wire).packet[1].sequence)
    /\ udp_prev' = udp_snapshot
    /\ udp_op' = udp_no_op
    /\ UNCHANGED <<tx_built, tx_calls, rx_runs>>
    /\ UdpFrame

\* The network loses the datagram.
UdpLoopDrop ==
    /\ wire # <<>>
    /\ wire' = Tail(wire)
    /\ udp_prev' = udp_snapshot
    /\ udp_op' = udp_no_op
    /\ rx_op' = rx_no_op
    /\ UNCHANGED <<udp_initialized, udp_running, sock, rx_task_handle,
                   user_rx_callback, stats, tx_sequence, last_rx_sequence,
                   rx_loops, last_packet_events, tx_built, tx_calls, rx_runs,
                   rx_stream>>
    /\ UdpFrame

NextUdpLoop ==
    \/ UdpLoopSend
    \/ UdpLoopDeliver
    \/ UdpLoopDrop
    \/ UdpStart
    \/ UdpStop
    \/ UdpRxExit

SpecUdpLoop == InitUdp /\ [][NextUdpLoop]_vars

\* The receive task is scheduled, and its recvfrom returns after the
\* 100 ms SO_RCVTIMEO at the latest, so a loop whose while (running) test
\* would fail does reach that test.
SpecUdpLoopFair == SpecUdpLoop /\ WF_vars(UdpRxExit)

\* ------------------------------------------------- the network test task
\* app_main creates network_test_task, which runs its loop every 20 ms while
\* the buttons drive the PTT and call machines.
NetFrame ==
    /\ udp_prev' = udp_snapshot
    /\ rx_op' = rx_no_op
    /\ tx_calls' = tx_calls + 1
    /\ UNCHANGED <<wire, rx_runs, rx_stream>>
    /\ UNCHANGED <<pttVars, callVars, gpioVars, pinVars, concVars, acctVars,
                   procVars, dmVars>>

NetCycle ==
    /\ test_count < MaxCycles
    /\ \E sendto_errno \in SendtoErrnos : network_test_cycle(sendto_errno)
    /\ NetFrame

NetPttEvent ==
    /\ Len(ptt_events) + Len(call_ops) < MaxNetButtons
    /\ PttButtonEvent

NetCallEvent ==
    /\ Len(ptt_events) + Len(call_ops) < MaxNetButtons
    /\ CallButtonEvent

NextNetTest == NetCycle \/ NetPttEvent \/ NetCallEvent

SpecNetTest == InitUdp /\ [][NextNetTest]_vars

\* ------------------------------------------------- the two test loops
\* Both tasks are scheduled and their vTaskDelay calls return, so a task at
\* the top of its loop makes its next pass.
AudioPass ==
    /\ audio_passes < MaxAudioFrames
    /\ \E encoded_bytes \in EncodeResults, decoded_samples \in DecodeResults :
           audio_test_pass(encoded_bytes, decoded_samples)
    /\ UNCHANGED <<pttVars, callVars, gpioVars, pinVars, concVars, udpVars,
                   acctVars, procVars, dmVars>>

NextTestLoops == NetCycle \/ AudioPass

SpecTestLoops ==
    InitUdp /\ [][NextTestLoops]_vars /\ WF_vars(NetCycle)
        /\ WF_vars(AudioPass)

\* --------------------------------------------------------- the limiter
\* Samples around zero, around the knee of each threshold and at both ends
\* of the int16_t range.
LimitSamples ==
    {INT16_MIN, -INT16_MAX, -31133, -31129, -31128, -16387, -16383, -5, -1,
     0, 1, 4, 16383, 16384, 16388, 31128, 31129, 31132, 31133, INT16_MAX}

LimitThresholds == {FLOAT_0_0, FLOAT_0_5, FLOAT_0_95, FLOAT_1_0}

MaxFrameLen == 2

LimitBuffers ==
    UNION {[1..n -> LimitSamples] : n \in 0..MaxFrameLen}

InitLimit ==
    /\ ptt_control_init(TRUE)
    /\ call_module_init(TRUE)
    /\ gpio_control_init(TRUE, TRUE)
    /\ debounce_ms = CHOOSE d \in DebounceValues : TRUE
    /\ pins_released
    /\ conc_at_init
    /\ udp_transport_init(TRUE)
    /\ acct_at_init
    /\ app_at_init
    /\ dm_at_init
    /\ proc_in \in [fn : {"limit"}, buffer : LimitBuffers,
                     threshold : LimitThresholds]
    /\ proc_out = <<>>

Limit ==
    /\ proc_in.fn = "limit"
    /\ proc_out = <<>>
    /\ proc_out' = <<audio_processor_limit(proc_in.buffer,
                                            proc_in.threshold)>>
    /\ UNCHANGED <<pttVars, callVars, gpioVars, pinVars, concVars, udpVars,
                   acctVars, appVars, dmVars, proc_in>>

NextLimit == Limit

SpecLimit == InitLimit /\ [][NextLimit]_vars

\* --------------------------------------------------------- the sidetone
SidetoneSamples == {INT16_MIN, -3, 100, INT16_MAX}

SidetoneLevels ==
    {FLOAT_NEG_0_5, FLOAT_0_0, FLOAT_0_3, FLOAT_0_5, FLOAT_1_0, FLOAT_1_5}

\* The microphone frame and the incoming frame have the same length.
SidetoneFrames ==
    UNION {[mic_in : [1..n -> SidetoneSamples],
            audio_in : [1..n -> SidetoneSamples]] : n \in 0..MaxFrameLen}

InitSidetone ==
    /\ ptt_control_init(TRUE)
    /\ call_module_init(TRUE)
    /\ gpio_control_init(TRUE, TRUE)
    /\ debounce_ms = CHOOSE d \in DebounceValues : TRUE
    /\ pins_released
    /\ conc_at_init
    /\ udp_transport_init(TRUE)
    /\ acct_at_init
    /\ app_at_init
    /\ dm_at_init
    /\ \E frames \in SidetoneFrames, level \in SidetoneLevels,
          ptt_active \in BOOLEAN, pack_build \in BOOLEAN :
           proc_in = [fn |-> "sidetone", mic_in |-> frames.mic_in,
                      audio_in |-> frames.audio_in, sidetone_level |-> level,
                      ptt_active |-> ptt_active, pack_build |-> pack_build]
    /\ proc_out = <<>>

Sidetone ==
    /\ proc_in.fn = "sidetone"
    /\ proc_out = <<>>
    /\ proc_out' = <<audio_processor_sidetone(proc_in.mic_in,
                         proc_in.audio_in, proc_in.sidetone_level,
                         proc_in.ptt_active, proc_in.pack_build)>>
    /\ UNCHANGED <<pttVars, callVars, gpioVars, pinVars, concVars, udpVars,
                   acctVars, appVars, dmVars, proc_in>>

NextSidetone == Sidetone

SpecSidetone == InitSidetone /\ [][NextSidetone]_vars

\* -------------------------------------------------------- the self-test
\* What the Opus calls and nvs_open return to the self-test.
SelfTestEncoded == {-1, 0, TEST_OPUS_SIZE}
SelfTestDecoded == {-1, SAMPLES_PER_FRAME}

InitSelfTest ==
    /\ ptt_control_init(TRUE)
    /\ call_module_init(TRUE)
    /\ gpio_control_init(TRUE, TRUE)
    /\ debounce_ms = CHOOSE d \in DebounceValues : TRUE
    /\ pins_released
    /\ conc_at_init
    /\ udp_transport_init(TRUE)
    /\ acct_at_init
    /\ app_at_init
    /\ dm_at_init
    /\ proc_in \in [fn : {"self_test"}, results_null : BOOLEAN,
                     simulate_hardware : BOOLEAN,
                     device_type_pack : BOOLEAN,
                     encoded : SelfTestEncoded, decoded : SelfTestDecoded,
                     nvs_ret : {ESP_OK, ESP_FAIL}]
    /\ proc_out = <<>>

SelfTest ==
    /\ proc_in.fn = "self_test"
    /\ proc_out = <<>>
    /\ proc_out' = <<diagnostics_run_self_test(proc_in.results_null,
                         proc_in.simulate_hardware, proc_in.device_type_pack,
                         proc_in.encoded, proc_in.decoded, proc_in.nvs_ret)>>
    /\ UNCHANGED <<pttVars, callVars, gpioVars, pinVars, concVars, udpVars,
                   acctVars, appVars, dmVars, proc_in>>

NextSelfTest == SelfTest

SpecSelfTest == InitSelfTest /\ [][NextSelfTest]_vars

\* ------------------------------------------- the receive loop in the app
\* The receive loop hands each packet to udp_rx_cb while the call button
\* drives the call machine.
AppRxPacket ==
    /\ last_packet_events < MaxRx
    /\ \E recv \in ValidDatagrams :
           /\ udp_rx_iteration(recv)
           /\ rx_stream' = rx_stream_add(recv.sequence)
           /\ IF user_rx_callback /\ recv.opus_size > 0
              THEN LET args == rx_callback_args(recv)
                   IN  udp_rx_cb(args.opus_data, args.opus_size,
                                 args.ptt_active, args.call_active)
              ELSE UNCHANGED <<pttVars, callVars>>
    /\ udp_prev' = udp_snapshot
    /\ udp_op' = udp_no_op
    /\ UNCHANGED <<wire, tx_built, tx_calls, rx_runs>>
    /\ UNCHANGED <<gpioVars, pinVars, concVars, acctVars, appVars,
                   procVars, dmVars>>

NextAppRx == UdpFirstStart \/ AppRxPacket \/ NetCallEvent

SpecAppRx == InitUdp /\ [][NextAppRx]_vars

\* ------------------------- the receive loop next to a statistics reader
AcctFrame ==
    /\ udp_prev' = udp_snapshot
    /\ udp_op' = udp_no_op
    /\ UNCHANGED <<udp_initialized, udp_running, sock, rx_task_handle,
                   user_rx_callback, tx_sequence, rx_loops, wire, tx_built,
                   tx_calls, rx_runs, acct_reads>>
    /\ UNCHANGED <<pttVars, callVars, gpioVars, pinVars, concVars, appVars,
                   procVars, dmVars>>

\* The datagrams that arrive while the statistics are being read: in
\* order, or after a gap.
AcctDatagrams == {d \in ValidDatagrams : d.sequence \in {u32(0), u32(2)}}

AcctRecv ==
    /\ last_packet_events < MaxRx
    /\ \E recv \in AcctDatagrams :
           /\ acct_recv(recv)
           /\ rx_stream' = rx_stream_add(recv.sequence)
    /\ AcctFrame

AcctCountPacket == acct_count_packet /\ AcctFrame /\ UNCHANGED rx_stream
AcctCountBytes == acct_count_bytes /\ AcctFrame /\ UNCHANGED rx_stream
AcctCountLost == acct_count_lost /\ AcctFrame /\ UNCHANGED rx_stream
AcctStoreLast == acct_store_last /\ AcctFrame /\ UNCHANGED rx_stream
AcctPercent == acct_percent /\ AcctFrame /\ UNCHANGED rx_stream
AcctDeliver == acct_deliver /\ AcctFrame /\ UNCHANGED rx_stream

\* Another task (network_test_task) reads the statistics.
AcctGetStats ==
    /\ acct_reads < MaxStatReads
    /\ udp_transport_get_stats
    /\ acct_reads' = acct_reads + 1
    /\ udp_prev' = udp_snapshot
    /\ rx_op' = rx_no_op
    /\ UNCHANGED <<wire, tx_calls, rx_runs, rx_stream, acct_pc, acct_cur,
                   acct_before, acct_after>>
    /\ UNCHANGED <<pttVars, callVars, gpioVars, pinVars, concVars, appVars,
                   procVars, dmVars>>

\* app_main has started the transport; the receive task is in its loop.
AcctStart == acct_pc = "recv" /\ UdpFirstStart

NextUdpStats ==
    \/ AcctStart
    \/ AcctRecv
    \/ AcctCountPacket
    \/ AcctCountBytes
    \/ AcctCountLost
    \/ AcctStoreLast
    \/ AcctPercent
    \/ AcctDeliver
    \/ AcctGetStats

SpecUdpStats == InitUdp /\ [][NextUdpStats]_vars

\* ------------------------------------------------- PTT: properties
PttActed == Len(ptt_events) > 0
PttLastEv == ptt_events[Len(ptt_events)]

\* C1: from Idle, any event with pressed = true moves the PTT state machine
\* to Latched, whatever hold_time_ms the event carries.
C1_IdlePressLatches ==
    (PttActed /\ ptt_prev = PTT_IDLE /\ PttLastEv.pressed)
        => ptt_current_state = PTT_LATCHED

C1_Witness ==
    /\ PttActed
    /\ ptt_prev = PTT_IDLE
    /\ PttLastEv.pressed
    /\ PttLastEv.hold_time_ms >= PTT_HOLD_THRESHOLD_MS
    /\ ptt_current_state = PTT_LATCHED

PttOutsideTable ==
    \/ (ptt_prev = PTT_IDLE /\ ~PttLastEv.pressed)
    \/ (ptt_prev = PTT_MOMENTARY /\ PttLastEv.pressed)
    \/ (ptt_prev = PTT_LATCHED /\ PttLastEv.pressed
          /\ PttLastEv.hold_time_ms < PTT_HOLD_THRESHOLD_MS)

C4_OtherPairsNoOp ==
    (PttActed /\ PttOutsideTable)
        => (ptt_current_state = ptt_prev /\ ptt_notes = <<>>)

C4_Witness ==
    /\ PttActed
    /\ ptt_user_callback
    /\ ptt_prev = PTT_MOMENTARY
    /\ PttLastEv.pressed
    /\ ptt_current_state = PTT_MOMENTARY
    /\ ptt_notes = <<>>

\* C5: is_transmitting() is true exactly in Latched and Momentary, and every
\* state change invokes the registered notification exactly once, with the
\* new state and a transmitting flag equal to is_transmitting() after the
\* change; an event that changes nothing invokes none.
C5_TransmittingAndNotification ==
    /\ ptt_control_is_transmitting
         <=> (ptt_control_get_state \in {PTT_LATCHED, PTT_MOMENTARY})
    /\ (PttActed /\ ptt_user_callback)
         => ptt_notes =
              IF ptt_current_state # ptt_prev
              THEN <<[state |-> ptt_current_state,
                      transmitting |-> ptt_control_is_transmitting]>>
              ELSE <<>>

C5_Witness ==
    /\ PttActed
    /\ ptt_user_callback
    /\ ptt_prev = PTT_LATCHED
    /\ ptt_current_state = PTT_MOMENTARY
    /\ ptt_notes = <<[state |-> PTT_MOMENTARY, transmitting |-> TRUE]>>

\* C6: as long as no pressed = true event has carried a hold_time_ms at or
\* above the threshold, the state is never Momentary and the notified states
\* alternate Latched, Idle, Latched, ...
PttNoLongPress ==
    \A i \in 1..Len(ptt_events) :
        ptt_events[i].pressed
            => ptt_events[i].hold_time_ms < PTT_HOLD_THRESHOLD_MS

PttQuickPresses(n) ==
    /\ Len(ptt_events) = 2 * n
    /\ \A i \in 1..Len(ptt_events) :
          /\ ptt_events[i].pressed = (i % 2 = 1)
          /\ ptt_events[i].hold_time_ms < PTT_HOLD_THRESHOLD_MS

C8_QuickPressTogglesLatch ==
    /\ PttQuickPresses(1) => ptt_control_is_transmitting
    /\ PttQuickPresses(2) => ~ptt_control_is_transmitting

\* ------------------------------------------------- call module: properties
CallActed == Len(call_ops) > 0
CallLastOp == call_ops[Len(call_ops)]

\* The (local button held, remote flag) pair the calls made so far leave:
\* a button event sets the first, a remote signal the second, clear resets
\* both.
RECURSIVE CallInputs(_)
CallInputs(ops) ==
    IF ops = <<>> THEN <<FALSE, FALSE>>
    ELSE LET before == CallInputs(SubSeq(ops, 1, Len(ops) - 1))
             last == ops[Len(ops)]
         IN  IF last.op = "button" THEN <<last.arg, before[2]>>
             ELSE IF last.op = "remote" THEN <<before[1], last.arg>>
             ELSE <<FALSE, FALSE>>

\* The table of the data model.
CallTable(local, remote) ==
    CASE ~local /\ ~remote -> CALL_IDLE
      [] local /\ ~remote -> CALL_OUTGOING
      [] ~local /\ remote -> CALL_INCOMING
      [] local /\ remote -> CALL_ACKNOWLEDGED

\* C9: after any sequence of button_event, remote_signal and clear calls the
\* call state is the table's value for the current (local button held,
\* remote flag) pair, whatever came before.
C9_CallStateIsPureFunction ==
    /\ <<local_calling, remote_calling>> = CallInputs(call_ops)
    /\ call_current_state = CallTable(CallInputs(call_ops)[1],
                                      CallInputs(call_ops)[2])

C9_Witness ==
    /\ call_user_callback
    /\ call_ops = <<[op |-> "button", arg |-> TRUE],
                    [op |-> "remote", arg |-> TRUE],
                    [op |-> "button", arg |-> FALSE]>>
    /\ call_prev = CALL_ACKNOWLEDGED
    /\ call_current_state = CALL_INCOMING
    /\ call_log = <<call_notification(CALL_OUTGOING, TRUE),
                    call_notification(CALL_ACKNOWLEDGED, TRUE),
                    call_notification(CALL_INCOMING, FALSE)>>

\* C10: with a notification registered, a call into the module invokes it
\* exactly once (with the new state) when the call state changed and not at
\* all when the recomputation left the state as it was.
C10_NotifyOncePerChange ==
    (CallActed /\ call_user_callback)
        => call_notes =
             IF call_current_state # call_prev
             THEN <<call_notification(call_current_state, local_calling)>>
             ELSE <<>>

C10_Witness ==
    /\ CallActed
    /\ call_user_callback
    /\ Len(call_ops) = 3
    /\ call_ops[1] = [op |-> "button", arg |-> TRUE]
    /\ call_ops[2] = [op |-> "button", arg |-> TRUE]
    /\ call_ops[3] = [op |-> "remote", arg |-> FALSE]
    /\ call_current_state = CALL_OUTGOING
    /\ call_log = <<call_notification(CALL_OUTGOING, TRUE)>>

\* ------------------------------------------------- button monitor: properties
\* The states notified so far, in order.
RECURSIVE PttLogStates(_)
PttLogStates(log) ==
    IF log = <<>> THEN <<>>
    ELSE <<log[1].state>> \o PttLogStates(Tail(log))

\* C7: when the PTT button is pressed once, held longer than the hold
\* threshold and released, the monitor delivers a hold notification before
\* the release: the release finds the state machine in Momentary and the
\* states notified are Latched, Momentary, Idle.
C7_HoldNotifiedBeforeRelease ==
    (/\ ptt_edges = 2
     /\ ptt_held_ms > PTT_HOLD_THRESHOLD_MS
     /\ PttActed
     /\ ~PttLastEv.pressed)
        => /\ ptt_prev = PTT_MOMENTARY
           /\ PttLogStates(ptt_log) = <<PTT_LATCHED, PTT_MOMENTARY, PTT_IDLE>>

\* C11: in every state the call module reaches when called one call at a
\* time, is_calling() is true exactly in Outgoing and Acknowledged and
\* is_being_called() exactly in Incoming and Acknowledged; so is_calling()
\* equals local_calling and is_being_called() equals remote_calling.
C11_CallQueriesMatchFlags ==
    /\ call_module_is_calling
         <=> (call_module_get_state \in {CALL_OUTGOING, CALL_ACKNOWLEDGED})
    /\ call_module_is_being_called
         <=> (call_module_get_state \in {CALL_INCOMING, CALL_ACKNOWLEDGED})
    /\ call_module_is_calling <=> CallInputs(call_ops)[1]
    /\ call_module_is_being_called <=> CallInputs(call_ops)[2]
    /\ call_module_is_calling <=> local_calling
    /\ call_module_is_being_called <=> remote_calling

C11_Witness ==
    /\ CallActed
    /\ CallLastOp = [op |-> "remote", arg |-> TRUE]
    /\ call_prev = CALL_OUTGOING
    /\ call_module_is_calling
    /\ call_module_is_being_called
    /\ local_calling
    /\ remote_calling

\* C12: when a call-button event and a remote-flag update run at the same
\* time in their two tasks, the call state is the table's value for the
\* final (local, remote) flags once both calls have returned.
C12_ConcurrentUpdateNotStale ==
    (\A t \in CallTasks : cc_pc[t] = "idle")
        => call_current_state = CallTable(local_calling, remote_calling)

\* ------------------------------------------------- transport: properties
UdpSent == udp_op.op = "send"

\* C13: the packets a sender builds carry the sequence numbers 0, 1, 2, ...
\* (mod 2^32) in the order they are built, whatever transport calls (send,
\* get_stats, reset_stats, stop, start) are made in between.
C13_SequenceIncrements ==
    \A i \in 1..Len(tx_built) :
        tx_built[i] = (IF i = 1 THEN u32(0)
                       ELSE u32_add(tx_built[i - 1], u32(1)))

\* C14: a send whose payload is larger than the 256-byte payload field
\* returns failure and does nothing else: sendto is not called, no packet is
\* built (so nothing is truncated), and the statistics and the sequence
\* counter are what they were before the call.
C14_OversizeRejected ==
    (UdpSent /\ udp_op.opus_size > OPUS_DATA_SIZE)
        => /\ udp_op.ret = ESP_FAIL
           /\ ~udp_op.handed
           /\ udp_op.packet = <<>>
           /\ stats = udp_prev.stats
           /\ tx_sequence = udp_prev.tx_sequence
           /\ udp_snapshot = udp_prev

C14_Witness ==
    /\ UdpSent
    /\ udp_op.opus_size = 300
    /\ udp_op.ret = ESP_FAIL
    /\ stats.packets_sent = 2
    /\ tx_sequence = u32(2)

\* C15: a failing sendto makes send return failure without counting the
\* packet or its bytes, and leaves the transport initialized with its socket
\* open; every send of a payload that fits is handed to sendto, also after a
\* failure, and succeeds when sendto does.
C15_SendFailureTransient ==
    /\ (UdpSent /\ udp_op.handed /\ ~udp_op.sent)
           => /\ udp_op.ret = ESP_FAIL
              /\ stats = udp_prev.stats
    /\ udp_initialized /\ sock >= 0
    /\ (UdpSent /\ udp_op.opus_size <= OPUS_DATA_SIZE) => udp_op.handed
    /\ (UdpSent /\ udp_op.sent)
           => /\ udp_op.ret = ESP_OK
              /\ stats.packets_sent = udp_prev.stats.packets_sent + 1
              /\ stats.bytes_sent
                     = udp_prev.stats.bytes_sent + HEADER_SIZE
                         + udp_op.opus_size

\* A send fails at sendto and the send after it succeeds.
C15_Witness ==
    /\ tx_sequence = u32(2)
    /\ tx_calls = 2
    /\ Len(tx_built) = 2
    /\ UdpSent
    /\ udp_op.sent
    /\ udp_prev.stats.packets_sent = 0
    /\ stats.packets_sent = 1

RxPacket == rx_op.kind = "packet"
RxDgram == rx_op.dgram[1]

\* The loss estimate of a run whose sequence numbers went strictly up:
\* every datagram counted, and the gaps between the first and the latest
\* sequence number counted as lost.
rx_stream_estimate ==
    /\ stats.packets_received = rx_stream.count
    /\ stats.packets_lost
           = u32_sub(u32_add(u32_sub(rx_stream.last, rx_stream.first),
                             u32(1)),
                     u32(rx_stream.count))

\* The first run of the receive loop after udp_transport_init.
LossEstimateFirstRun ==
    (rx_runs = 1 /\ rx_stream.count > 0 /\ rx_stream.increasing)
        => rx_stream_estimate

LossEstimateFirstRunExample ==
    /\ rx_runs = 1
    /\ rx_stream = [count |-> 5, first |-> u32(0), last |-> u32(6),
                    increasing |-> TRUE]
    /\ stats.packets_received = 5
    /\ stats.packets_lost = u32(2)

\* C16: for the datagrams received since the transport was started, if
\* their sequence numbers went strictly up, packets_received is their number
\* and packets_lost is (last - first + 1) - number; the first datagram adds
\* no loss.
C16_LossEstimator ==
    (rx_stream.count > 0 /\ rx_stream.increasing) => rx_stream_estimate

\* C17: every datagram with a whole header sets last_rx_sequence to its
\* sequence number; one whose sequence number is not above the previous
\* datagram's leaves packets_lost as it was, and one above it adds the gap
\* to the previous datagram's sequence number.
C17_LastSequenceUnconditional ==
    RxPacket
        => /\ last_rx_sequence = RxDgram.sequence
           /\ (/\ udp_prev.stats.packets_received > 0
               /\ ~u32_gt(RxDgram.sequence, udp_prev.last_rx_sequence))
                  => stats.packets_lost = udp_prev.stats.packets_lost
           /\ (/\ udp_prev.stats.packets_received > 0
               /\ u32_gt(RxDgram.sequence, udp_prev.last_rx_sequence))
                  => stats.packets_lost
                         = u32_add(udp_prev.stats.packets_lost,
                                   u32_sub(u32_sub(RxDgram.sequence,
                                                   udp_prev.last_rx_sequence),
                                           u32(1)))

\* C18: a datagram shorter than the 12-byte header changes nothing: the
\* statistics, last_rx_sequence and the idle timer are what they were, the
\* receive callback is not called, and the loop is still running, ready
\* for the next datagram.
C18_ShortDatagramRejected ==
    rx_op.kind = "short"
        => /\ RxDgram.len < HEADER_SIZE
           /\ stats = udp_prev.stats
           /\ last_rx_sequence = udp_prev.last_rx_sequence
           /\ udp_snapshot = udp_prev
           /\ rx_op.calls = <<>>
           /\ udp_running
           /\ rx_loops > 0

C18_Witness ==
    /\ rx_op.kind = "short"
    /\ RxDgram.len = HEADER_SIZE - 1
    /\ stats.packets_received = 2
    /\ stats.packets_lost = u32(3)
    /\ last_rx_sequence = u32(5)

\* C19: every datagram with a whole header has the receive callback called
\* exactly once, after the packet was counted, with the packet's payload
\* length, payload, PTT flag and call flag; a zero-length payload included.
C19_CallbackOncePerPacket ==
    (RxPacket /\ user_rx_callback)
        => /\ stats.packets_received = udp_prev.stats.packets_received + 1
           /\ Len(rx_op.calls) = 1
           /\ rx_op.calls[1].opus_size = RxDgram.opus_size
           /\ rx_op.calls[1].ptt_active
                  = flag_set(RxDgram.flags, PACKET_FLAG_PTT)
           /\ rx_op.calls[1].call_active
                  = flag_set(RxDgram.flags, PACKET_FLAG_CALL)
           /\ (RxDgram.opus_size <= RxDgram.len - HEADER_SIZE)
                  => rx_op.calls[1].opus_data = RxDgram.opus_data

\* C20: the packet built for send(ptt, call) has flags bit 0 = ptt and
\* bit 1 = call, every other bit of flags and the reserved byte zero, and
\* the receiver's callback for that packet is called with the same ptt, the
\* same call and the same payload length.
C20_FlagsRoundTrip ==
    /\ (UdpSent /\ udp_op.handed)
           => /\ flag_set(udp_op.packet[1].flags, PACKET_FLAG_PTT)
                  = udp_op.ptt_active
              /\ flag_set(udp_op.packet[1].flags, PACKET_FLAG_CALL)
                  = udp_op.call_active
              /\ udp_op.packet[1].flags
                     < 2 * PACKET_FLAG_CALL
              /\ udp_op.packet[1].reserved = 0
              /\ udp_op.packet[1].opus_size = udp_op.opus_size
    /\ (RxPacket /\ RxDgram.origin # <<>>)
           => /\ Len(rx_op.calls) = 1
              /\ rx_op.calls[1].ptt_active = RxDgram.origin[1].ptt_active
              /\ rx_op.calls[1].call_active = RxDgram.origin[1].call_active
              /\ rx_op.calls[1].opus_size = RxDgram.origin[1].opus_size

\* C21: right after udp_transport_start has started the transport,
\* packets_sent, packets_received, packets_lost, bytes_sent and
\* bytes_received are all 0, also on a start that follows traffic and a stop.
C21_StatsZeroAtStart ==
    (udp_op.op = "start" /\ udp_op.ret = ESP_OK /\ ~udp_prev.running)
        => /\ stats.packets_sent = 0
           /\ stats.packets_received = 0
           /\ stats.packets_lost = u32(0)
           /\ stats.bytes_sent = 0
           /\ stats.bytes_received = 0

\* The statement-by-statement accounting ends where rx_account says.
AcctAgrees == acct_pc = "deliver" => stats = acct_after

\* C22: a snapshot returned by udp_transport_get_stats while the receive
\* loop accounts a packet equals the statistics either before or after the
\* whole accounting of that packet.
C22_SnapshotNotTorn ==
    udp_op.op = "get_stats"
        => (udp_op.out[1] = acct_before \/ udp_op.out[1] = acct_after)

\* C23: each direction owns its counters.  A udp_transport_send call leaves
\* packets_received, packets_lost, bytes_received, the loss percentage and
\* last_rx_sequence as they were, and on success adds 1 to packets_sent and
\* 12 + opus_size to bytes_sent (nothing on failure); an iteration of the
\* receive loop that accounts a datagram leaves packets_sent, bytes_sent and
\* tx_sequence as they were.
C23_CountersOwned ==
    /\ UdpSent
        => /\ stats.packets_received = udp_prev.stats.packets_received
           /\ stats.packets_lost = udp_prev.stats.packets_lost
           /\ stats.bytes_received = udp_prev.stats.bytes_received
           /\ stats.packet_loss_percent = udp_prev.stats.packet_loss_percent
           /\ last_rx_sequence = udp_prev.last_rx_sequence
           /\ IF udp_op.ret = ESP_OK
              THEN /\ stats.packets_sent = udp_prev.stats.packets_sent + 1
                   /\ stats.bytes_sent = udp_prev.stats.bytes_sent
                                             + HEADER_SIZE + udp_op.opus_size
              ELSE /\ stats.packets_sent = udp_prev.stats.packets_sent
                   /\ stats.bytes_sent = udp_prev.stats.bytes_sent
    /\ RxPacket
        => /\ stats.packets_sent = udp_prev.stats.packets_sent
           /\ stats.bytes_sent = udp_prev.stats.bytes_sent
           /\ tx_sequence = udp_prev.tx_sequence
           /\ stats.packets_received = udp_prev.stats.packets_received + 1
           /\ stats.bytes_received
                  = udp_prev.stats.bytes_received + RxDgram.len

\* Two packets sent, with 1 and 0 payload bytes, and the second of them
\* just accounted by the receive loop after the first.
C23_Witness ==
    /\ RxPacket
    /\ stats.packets_sent = 2
    /\ stats.bytes_sent = 2 * HEADER_SIZE + 1
    /\ stats.packets_received = 2
    /\ stats.bytes_received = 2 * HEADER_SIZE + 1
    /\ tx_sequence = u32(2)

C25_SendsOnlyWhenTransmitting ==
    net_op.kind = "cycle"
        => IF net_op.transmitting
           THEN /\ udp_op.op = "send"
                /\ udp_op.ptt_active
                /\ udp_op.call_active = net_op.calling
           ELSE /\ udp_op.op # "send"
                /\ stats.packets_sent = udp_prev.stats.packets_sent

\* C26: when the receive loop has handed a packet to the receive callback,
\* the call module's remote flag equals the packet's call flag, and with
\* the flag set the call state is Incoming or Acknowledged.
C26_CallStateFollowsPacket ==
    (RxPacket /\ rx_op.calls # <<>>)
        => /\ remote_calling = rx_op.calls[1].call_active
           /\ rx_op.calls[1].call_active
                  => call_module_get_state \in {CALL_INCOMING,
                                                CALL_ACKNOWLEDGED}

\* C27: a failed send, encode or decode does not end a test loop.  Both
\* tasks stay in their loops, and a pass that failed is followed by the
\* next pass.
C27_LoopSurvivesFailure ==
    /\ [](\A t \in TestTasks : task_pc[t] = "loop")
    /\ \A k \in 1..(MaxCycles - 1) :
           (net_op.ret = ESP_FAIL /\ test_count = k) ~> (test_count = k + 1)
    /\ \A k \in 1..(MaxAudioFrames - 1) :
           (audio_op.kind \in {"encode_failed", "decode_failed"}
                /\ audio_passes = k)
               ~> (audio_passes = k + 1)

\* The first send failed and the second pass of the network loop sent its
\* packet; the audio loop's first two passes failed, one in the encoder
\* and one in the decoder, and the third went through.
C27_Witness ==
    /\ test_count = 2
    /\ stats.packets_sent = 1
    /\ udp_op.ret = ESP_OK
    /\ tx_sequence = u32(2)
    /\ audio_passes = 3
    /\ audio_test_count = 1
    /\ audio_op.kind = "frame"

\* trunc(threshold * 32767) of the exact product, for a float in [0, 1].
exact_threshold(f) ==
    LET a == f[1] \div 32768
        b == f[1] % 32768
        hi == f[1] - a - (IF b > 0 THEN 1 ELSE 0)
    IN  IF f[1] = 0 THEN 0 ELSE hi \div 2^(-f[2] - 15)

RECURSIVE peak(_)
peak(buffer) ==
    IF buffer = <<>> THEN 0
    ELSE LET rest == peak(Tail(buffer))
         IN  IF abs(Head(buffer)) > rest THEN abs(Head(buffer)) ELSE rest

\* C28: with T = trunc(threshold * 32767), the limiter leaves a sample x
\* with |x| <= T as it is and turns any other into
\* sign(x) * (T + (|x| - T) / 4), the division truncating; every sample of
\* the result is an int16_t, and none is larger in magnitude than
\* T + (peak_before - T) / 4.
C28_LimiterSoftKnee ==
    (proc_in.fn = "limit" /\ proc_out # <<>>)
        => LET T == exact_threshold(proc_in.threshold)
               before == proc_in.buffer
               after == proc_out[1]
           IN  /\ Len(after) = Len(before)
               /\ \A i \in 1..Len(before) :
                      LET x == before[i]
                      IN  /\ after[i]
                                = (IF abs(x) <= T THEN x
                                   ELSE IF x > 0
                                   THEN T + ((abs(x) - T) \div 4)
                                   ELSE -(T + ((abs(x) - T) \div 4)))
                          /\ after[i] \in INT16_MIN..INT16_MAX
                          /\ abs(after[i]) <= T + c_div(peak(before) - T, 4)

\* limit(buf, 0.95) on a frame with one sample under the knee and the most
\* negative sample: T = 31128, and -32768 becomes -(31128 + 1640 / 4).
C28_Witness ==
    /\ proc_in.fn = "limit"
    /\ proc_in.threshold = FLOAT_0_95
    /\ proc_in.buffer = <<31128, INT16_MIN>>
    /\ proc_out = << <<31128, -31538>> >>

\* C29: with the gate off or a level that is not above zero, the sidetone
\* output is the incoming frame, sample for sample, whatever the microphone
\* frame holds.
C29_SidetoneGated ==
    (proc_in.fn = "sidetone" /\ proc_out # <<>>
        /\ (~proc_in.ptt_active \/ ~float_gt_0(proc_in.sidetone_level)))
        => proc_out[1] = proc_in.audio_in

\* A belt pack with sidetone at 0.3 and the gate off: the microphone is at
\* full scale and the output is the incoming frame.
C29_Witness ==
    /\ proc_in.fn = "sidetone"
    /\ proc_in.pack_build
    /\ ~proc_in.ptt_active
    /\ proc_in.sidetone_level = FLOAT_0_3
    /\ proc_in.mic_in = <<INT16_MAX, INT16_MIN>>
    /\ proc_in.audio_in = <<100, -3>>
    /\ proc_out = << <<100, -3>> >>

\* C30: diagnostics_run_self_test, given a results structure, in a build
\* with SIMULATE_HARDWARE=1 marks the hardware tests skipped and returns
\* ESP_OK whatever the tests it runs gave; in a build with
\* SIMULATE_HARDWARE=0 it never returns once a test has failed.
C30_SelfTestOutcome ==
    (proc_in.fn = "self_test" /\ proc_out # <<>> /\ ~proc_in.results_null)
        => LET out == proc_out[1]
               results == out.results[1]
           IN  IF proc_in.simulate_hardware
               THEN /\ ~out.halted
                    /\ out.ret = ESP_OK
                    /\ \A t \in {"codec_i2c", "codec_audio", "battery_adc",
                                  "gpio_buttons", "gpio_leds"} :
                           results.tests[t] = TEST_SKIP
               ELSE results.fail_count > 0 => out.halted

C32_MomentaryOnlyFromLatched ==
    /\ (ptt_current_state = PTT_MOMENTARY /\ ptt_prev # PTT_MOMENTARY)
           => ptt_prev = PTT_LATCHED
    /\ ptt_user_callback
           => \A i \in 1..Len(ptt_log) :
                  ptt_log[i].state = PTT_MOMENTARY
                     => (i > 1 /\ ptt_log[i - 1].state = PTT_LATCHED)

\* A first press that already carries a hold time at or above the threshold
\* only latches; the next held report of the same press reaches Momentary.
C32_Witness ==
    /\ Len(ptt_events) = 2
    /\ ptt_events[1].pressed
    /\ ptt_events[1].hold_time_ms >= PTT_HOLD_THRESHOLD_MS
    /\ ptt_events[2].pressed
    /\ ptt_current_state = PTT_MOMENTARY
    /\ ptt_prev = PTT_LATCHED
    /\ ptt_user_callback
    /\ ptt_log = <<ptt_notification(PTT_LATCHED),
                   ptt_notification(PTT_MOMENTARY)>>

\* C33: every call of the receive callback passes a payload length of at
\* most OPUS_DATA_SIZE and at most the datagram's length minus the header;
\* a datagram whose opus_size exceeds the bytes received is never
\* delivered with that length.
C33_PayloadLengthBounded ==
    RxPacket
        => \A i \in 1..Len(rx_op.calls) :
               /\ rx_op.calls[i].opus_size <= OPUS_DATA_SIZE
               /\ rx_op.calls[i].opus_size <= RxDgram.len - HEADER_SIZE

\* ------------------------------------------------- the transport's life cycle
\* The statics of udp_transport.c before udp_transport_init is called.
udp_statics ==
    /\ udp_initialized = FALSE
    /\ udp_running = FALSE
    /\ sock = -1
    /\ rx_task_handle = FALSE
    /\ user_rx_callback = FALSE
    /\ stats = stats_zero
    /\ tx_sequence = u32(0)
    /\ last_rx_sequence = u32(0)
    /\ rx_loops = 0
    /\ last_packet_events = 0
    /\ wire = <<>>
    /\ udp_op = udp_no_op
    /\ udp_prev = udp_snapshot
    /\ tx_built = <<>>
    /\ tx_calls = 0
    /\ rx_runs = 0
    /\ rx_op = rx_no_op
    /\ rx_stream = rx_stream_none

\* What a successful udp_transport_init leaves behind.
udp_init_tail(rx_callback, socket_fd) ==
    /\ user_rx_callback' = rx_callback
    /\ sock' = socket_fd
    /\ stats' = stats_zero
    /\ tx_sequence' = u32(0)
    /\ last_rx_sequence' = u32(0)
    /\ udp_initialized' = TRUE
    /\ udp_op' = [udp_no_op EXCEPT !.op = "init"]

\* udp_transport_init without the test of initialized.
udp_transport_init_call_again(rx_callback, socket_fd, bind_ret) ==
    /\ UNCHANGED <<udp_running, rx_task_handle, rx_loops, last_packet_events,
                   tx_built>>
    /\ IF socket_fd < 0
       THEN /\ user_rx_callback' = rx_callback
            /\ sock' = socket_fd
            /\ UNCHANGED <<udp_initialized, stats, tx_sequence,
                           last_rx_sequence>>
            /\ udp_op' = [udp_no_op EXCEPT !.op = "init", !.ret = ESP_FAIL]
       ELSE IF bind_ret < 0
       THEN /\ user_rx_callback' = rx_callback
            /\ sock' = -1
            /\ UNCHANGED <<udp_initialized, stats, tx_sequence,
                           last_rx_sequence>>
            /\ udp_op' = [udp_no_op EXCEPT !.op = "init", !.ret = ESP_FAIL]
       ELSE udp_init_tail(rx_callback, socket_fd)

\* esp_err_t udp_transport_init(udp_rx_callback_t rx_callback), as a call:
\* socket_fd is what socket() returns, bind_ret what bind() returns.
udp_transport_init_call(rx_callback, socket_fd, bind_ret) ==
    /\ UNCHANGED <<udp_running, rx_task_handle, rx_loops, last_packet_events,
                   tx_built>>
    /\ IF udp_initialized
       THEN /\ UNCHANGED <<udp_initialized, sock, user_rx_callback, stats,
                           tx_sequence, last_rx_sequence>>
            /\ udp_op' = [udp_no_op EXCEPT !.op = "init"]
       ELSE IF socket_fd < 0
       THEN /\ user_rx_callback' = rx_callback
            /\ sock' = socket_fd
            /\ UNCHANGED <<udp_initialized, stats, tx_sequence,
                           last_rx_sequence>>
            /\ udp_op' = [udp_no_op EXCEPT !.op = "init", !.ret = ESP_FAIL]
       ELSE IF bind_ret < 0
       THEN /\ user_rx_callback' = rx_callback
            /\ sock' = -1
            /\ UNCHANGED <<udp_initialized, stats, tx_sequence,
                           last_rx_sequence>>
            /\ udp_op' = [udp_no_op EXCEPT !.op = "init", !.ret = ESP_FAIL]
       ELSE udp_init_tail(rx_callback, socket_fd)

\* void udp_transport_deinit(void): udp_transport_stop(), close(sock).
udp_transport_deinit ==
    /\ UNCHANGED <<user_rx_callback, stats, tx_sequence, last_rx_sequence,
                   last_packet_events, tx_built, rx_loops>>
    /\ udp_op' = [udp_no_op EXCEPT !.op = "deinit"]
    /\ IF ~udp_initialized
       THEN UNCHANGED <<udp_initialized, udp_running, sock, rx_task_handle>>
       ELSE /\ udp_running' = FALSE
            /\ rx_task_handle' = FALSE
            /\ sock' = -1
            /\ udp_initialized' = FALSE

MaxLifeRx == 1

SocketResults == {-1, 0}
BindResults == {-1, 0}

LifeInit ==
    /\ \E socket_fd \in SocketResults, bind_ret \in BindResults :
           udp_transport_init_call(TRUE, socket_fd, bind_ret)
    /\ UdpCtlFrame
    /\ UNCHANGED <<rx_stream, rx_runs>>

LifeDeinit ==
    udp_transport_deinit /\ UdpCtlFrame /\ UNCHANGED <<rx_stream, rx_runs>>

LifeSend ==
    /\ tx_calls < MaxSends
    /\ \E sendto_errno \in SendtoErrnos :
           udp_transport_send("frame_a", 1, TRUE, FALSE, sendto_errno)
    /\ tx_calls' = tx_calls + 1
    /\ udp_prev' = udp_snapshot
    /\ rx_op' = rx_no_op
    /\ UNCHANGED <<wire, rx_runs, rx_stream>>
    /\ UdpFrame

\* The peer sends one kind of datagram; MaxLifeRx of them arrive.
LifeDatagrams ==
    {recv_result(HEADER_SIZE + 1, 0, u32(0), 1, PACKET_FLAG_PTT, 0, "frame_a")}

LifeRx ==
    /\ last_packet_events < MaxLifeRx
    /\ \E recv \in LifeDatagrams :
           /\ udp_rx_iteration(recv)
           /\ rx_stream' = rx_stream_add(recv.sequence)
    /\ UdpRxFrame

InitUdpLife ==
    /\ ptt_control_init(TRUE)
    /\ call_module_init(TRUE)
    /\ gpio_control_init(TRUE, TRUE)
    /\ debounce_ms = CHOOSE d \in DebounceValues : TRUE
    /\ pins_released
    /\ conc_at_init
    /\ udp_statics
    /\ acct_at_init
    /\ app_at_init
    /\ dm_at_init
    /\ proc_at_init

NextUdpLife ==
    \/ LifeInit
    \/ LifeDeinit
    \/ UdpStart
    \/ UdpStop
    \/ LifeSend
    \/ LifeRx
    \/ UdpRxExit

SpecUdpLife == InitUdpLife /\ [][NextUdpLife]_vars

AcctResetStats ==
    /\ acct_reads < MaxStatReads
    /\ rx_loops > 0
    /\ udp_transport_reset_stats
    /\ acct_reads' = acct_reads + 1
    /\ udp_prev' = udp_snapshot
    /\ rx_op' = rx_no_op
    /\ UNCHANGED <<wire, tx_calls, rx_runs, rx_stream, acct_pc, acct_cur,
                   acct_before, acct_after>>
    /\ UNCHANGED <<pttVars, callVars, gpioVars, pinVars, concVars, appVars,
                   procVars, dmVars>>

NextUdpReset ==
    \/ AcctStart
    \/ AcctRecv
    \/ AcctCountPacket
    \/ AcctCountBytes
    \/ AcctCountLost
    \/ AcctStoreLast
    \/ AcctPercent
    \/ AcctDeliver
    \/ AcctResetStats

SpecUdpReset == InitUdp /\ [][NextUdpReset]_vars

\* C35: a udp_transport_reset_stats that runs while the receive loop is
\* accounting a packet is atomic with respect to it: the statistics are
\* those of some serial order of the reset and the packet, so they never
\* show bytes received without a packet received.
C35_ResetAtomic ==
    stats.packets_received = 0 => stats.bytes_received = 0

\* C36: a datagram whose sequence number is the successor, modulo 2^32, of
\* the one before it adds nothing to packets_lost; this holds across the
\* wrap from 2^32 - 1 to 0.
C36_InOrderWrapCountsNoLoss ==
    (/\ RxPacket
     /\ RxDgram.sequence = u32_add(udp_prev.last_rx_sequence, u32(1)))
        => stats.packets_lost = udp_prev.stats.packets_lost

\* The run 2^32 - 1, 0, 1 has been received and no loss is counted.
C36_Witness ==
    /\ RxPacket
    /\ rx_stream.count = 3
    /\ rx_stream.first = U32_MAX
    /\ udp_prev.last_rx_sequence = u32(0)
    /\ RxDgram.sequence = u32(1)
    /\ stats.packets_received = 3
    /\ stats.packets_lost = u32(0)

\* C37: udp_transport_send before init or after deinit fails and changes
\* neither tx_sequence nor any statistic; udp_transport_start before init
\* fails and creates no receive loop; a second udp_transport_init while
\* initialized, and a second udp_transport_start while running, return
\* ESP_OK without touching the statistics or creating another loop.
C37_GuardedCalls ==
    /\ (udp_op.op = "send" /\ ~udp_prev.initialized)
           => /\ udp_op.ret = ESP_FAIL
              /\ ~udp_op.handed
              /\ tx_sequence = udp_prev.tx_sequence
              /\ stats = udp_prev.stats
    /\ (udp_op.op = "start" /\ ~udp_prev.initialized)
           => /\ udp_op.ret = ESP_FAIL
              /\ rx_loops = udp_prev.rx_loops
              /\ ~udp_running
    /\ (udp_op.op = "init" /\ udp_prev.initialized)
           => /\ udp_op.ret = ESP_OK
              /\ stats = udp_prev.stats
              /\ tx_sequence = udp_prev.tx_sequence
              /\ last_rx_sequence = udp_prev.last_rx_sequence
              /\ rx_loops = udp_prev.rx_loops
              /\ udp_running = udp_prev.running
    /\ (udp_op.op = "start" /\ udp_prev.running)
           => /\ udp_op.ret = ESP_OK
              /\ stats = udp_prev.stats
              /\ rx_loops = udp_prev.rx_loops

\* A second init arrives after datagrams were sent and received, and the
\* counters are still there.
C37_Witness ==
    /\ udp_op.op = "init"
    /\ udp_prev.initialized
    /\ udp_prev.running
    /\ stats.packets_sent > 0
    /\ stats.packets_received > 0
    /\ tx_sequence # u32(0)

\* A send after deinit: the counters of the closed transport are untouched.
C37_WitnessAfterDeinit ==
    /\ udp_op.op = "send"
    /\ ~udp_prev.initialized
    /\ sock < 0
    /\ stats.packets_sent > 0

\* C38: the datagrams handed to the network successfully carry consecutive
\* sequence numbers: a send that fails at sendto consumes no sequence
\* number, so the datagrams in flight to the peer have no gap.
C38_SentSequencesConsecutive ==
    /\ (udp_op.op = "send" /\ udp_op.handed /\ ~udp_op.sent)
           => tx_sequence = udp_prev.tx_sequence
    /\ \A i \in 1..(Len(wire) - 1) :
           wire[i + 1].packet[1].sequence
               = u32_add(wire[i].packet[1].sequence, u32(1))

\* ====================================================== device_manager.c
LIGHT_SLEEP_TIMEOUT_SEC == 90

\* esp_timer_get_time() / 1000
esp_timer_ms == timer_us \div 1000

\* esp_err_t device_manager_init(void)
device_manager_init ==
    IF dm_initialized
    THEN UNCHANGED <<dm_initialized, device_state, last_packet_time>>
    ELSE /\ device_state' = DEVICE_STATE_INIT
         /\ last_packet_time' = esp_timer_ms
         /\ dm_initialized' = TRUE

\* void device_manager_set_state(device_state_t state)
device_manager_set_state(state) ==
    device_state' = IF dm_initialized THEN state ELSE device_state

\* device_state_t device_manager_get_state(void)
device_manager_get_state ==
    IF dm_initialized THEN device_state ELSE DEVICE_STATE_ERROR

\* void device_manager_packet_received(void)
device_manager_packet_received ==
    last_packet_time' = IF dm_initialized THEN esp_timer_ms
                        ELSE last_packet_time

\* device_manager_should_sleep comparing with > in place of >=.
device_manager_should_sleep_strict ==
    IF ~dm_initialized THEN FALSE
    ELSE IF dm_pack_sleep
    THEN LET idle_time_ms == esp_timer_ms - last_packet_time
             threshold_ms == LIGHT_SLEEP_TIMEOUT_SEC * 1000
         IN  idle_time_ms > threshold_ms
    ELSE FALSE

\* bool device_manager_should_sleep(void)
device_manager_should_sleep ==
    IF ~dm_initialized THEN FALSE
    ELSE IF dm_pack_sleep
    THEN LET idle_time_ms == esp_timer_ms - last_packet_time
             threshold_ms == LIGHT_SLEEP_TIMEOUT_SEC * 1000
         IN  idle_time_ms >= threshold_ms
    ELSE FALSE

\* ------------------------------------------------- main.c: start-up
\* wifi_event_type_t, as wifi_event_cb receives it
WifiEvents ==
    {"WIFI_EVENT_CONNECTED", "WIFI_EVENT_DISCONNECTED", "WIFI_EVENT_GOT_IP"}

\* static void wifi_event_cb(wifi_event_type_t event, void *data)
wifi_event_cb(event) ==
    IF event = "WIFI_EVENT_CONNECTED"
    THEN device_manager_set_state(DEVICE_STATE_CONNECTED)
    ELSE IF event = "WIFI_EVENT_DISCONNECTED"
    THEN device_manager_set_state(DEVICE_STATE_DISCONNECTED)
    ELSE UNCHANGED device_state

DevFrame ==
    UNCHANGED <<pttVars, callVars, gpioVars, pinVars, concVars, acctVars,
                appVars, procVars>>

\* The timer's steps, in microseconds: within a millisecond, a millisecond,
\* and one millisecond short of the sleep timeout.
TickSteps == {300, 1000, (LIGHT_SLEEP_TIMEOUT_SEC * 1000 - 1) * 1000}

MaxDmTicks == 4

\* app_main: device_manager_init()
MainDmInit ==
    /\ main_pc = "boot"
    /\ device_manager_init
    /\ dm_last_valid' = esp_timer_ms
    /\ main_pc' = "wifi"
    /\ UNCHANGED <<dm_pack_sleep, timer_us, dm_ticks, wifi_link, udpVars>>
    /\ DevFrame

\* app_main: wifi_manager_init(wifi_event_cb), wifi_manager_start(); the
\* three-second wait that follows is the timer's steps.
MainWifiStart ==
    /\ main_pc = "wifi"
    /\ main_pc' = "udp_init"
    /\ UNCHANGED <<dm_initialized, device_state, last_packet_time,
                   dm_pack_sleep, timer_us, dm_ticks, dm_last_valid,
                   wifi_link, udpVars>>
    /\ DevFrame

\* app_main: udp_transport_init(udp_rx_cb); a failure is logged only.
MainUdpInit ==
    /\ main_pc = "udp_init"
    /\ \E socket_fd \in SocketResults, bind_ret \in BindResults :
           udp_transport_init_call(TRUE, socket_fd, bind_ret)
    /\ udp_prev' = udp_snapshot
    /\ rx_op' = rx_no_op
    /\ main_pc' = "udp_start"
    /\ UNCHANGED <<wire, tx_calls, rx_stream, rx_runs>>
    /\ UNCHANGED <<dm_initialized, device_state, last_packet_time,
                   dm_pack_sleep, timer_us, dm_ticks, dm_last_valid,
                   wifi_link>>
    /\ DevFrame

\* app_main: udp_transport_start(); a failure is logged only.
MainUdpStart ==
    /\ main_pc = "udp_start"
    /\ udp_transport_start
    /\ udp_prev' = udp_snapshot
    /\ rx_op' = rx_no_op
    /\ rx_runs' = IF rx_loops' > rx_loops THEN rx_runs + 1 ELSE rx_runs
    /\ main_pc' = "set_state"
    /\ UNCHANGED <<wire, tx_calls, rx_stream>>
    /\ UNCHANGED <<dm_initialized, device_state, last_packet_time,
                   dm_pack_sleep, timer_us, dm_ticks, dm_last_valid,
                   wifi_link>>
    /\ DevFrame

\* app_main: device_manager_set_state(DEVICE_STATE_INIT), then the main
\* loop.
MainSetStateInit ==
    /\ main_pc = "set_state"
    /\ device_manager_set_state(DEVICE_STATE_INIT)
    /\ main_pc' = "main_loop"
    /\ UNCHANGED <<dm_initialized, last_packet_time, dm_pack_sleep, timer_us,
                   dm_ticks, dm_last_valid, wifi_link, udpVars>>
    /\ DevFrame

\* The WiFi event task calls wifi_event_cb once wifi_manager_start has run.
DevWifiEvent ==
    /\ main_pc \notin {"boot", "wifi"}
    /\ \E event \in WifiEvents :
           /\ wifi_event_cb(event)
           /\ wifi_link' = IF event = "WIFI_EVENT_CONNECTED"
                           THEN "connected"
                           ELSE IF event = "WIFI_EVENT_DISCONNECTED"
                           THEN "disconnected"
                           ELSE wifi_link
    /\ UNCHANGED <<dm_initialized, last_packet_time, dm_pack_sleep, timer_us,
                   dm_ticks, dm_last_valid, main_pc, udpVars>>
    /\ DevFrame

\* Time passes.
DevTick ==
    /\ dm_ticks < MaxDmTicks
    /\ \E d \in TickSteps : timer_us' = timer_us + d
    /\ dm_ticks' = dm_ticks + 1
    /\ UNCHANGED <<dm_initialized, device_state, last_packet_time,
                   dm_pack_sleep, dm_last_valid, wifi_link, main_pc,
                   udpVars>>
    /\ DevFrame

\* One iteration of udp_rx_task: device_manager_packet_received() is called
\* where the iteration counts a call of it.
DevRx(recv) ==
    /\ udp_rx_iteration(recv)
    /\ IF last_packet_events' # last_packet_events
       THEN device_manager_packet_received
       ELSE UNCHANGED last_packet_time
    /\ dm_last_valid' = IF recv.len >= HEADER_SIZE THEN esp_timer_ms
                        ELSE dm_last_valid
    /\ udp_prev' = udp_snapshot
    /\ udp_op' = udp_no_op
    /\ UNCHANGED <<wire, tx_built, tx_calls, rx_runs>>
    /\ UNCHANGED <<dm_initialized, device_state, dm_pack_sleep, timer_us,
                   dm_ticks, wifi_link, main_pc>>
    /\ DevFrame

DevRxValid ==
    /\ last_packet_events < MaxLifeRx
    /\ \E recv \in LifeDatagrams :
           /\ DevRx(recv)
           /\ rx_stream' = rx_stream_add(recv.sequence)

DevRxShort ==
    /\ \E recv \in ShortDatagrams : DevRx(recv)
    /\ UNCHANGED rx_stream

\* The build is a belt pack with light sleep, or not; app_main is entered
\* with the timer on or off a millisecond boundary.
InitDevice ==
    /\ ptt_control_init(TRUE)
    /\ call_module_init(TRUE)
    /\ gpio_control_init(TRUE, TRUE)
    /\ debounce_ms = CHOOSE d \in DebounceValues : TRUE
    /\ pins_released
    /\ conc_at_init
    /\ udp_statics
    /\ acct_at_init
    /\ app_at_init
    /\ proc_at_init
    /\ dm_initialized = FALSE
    /\ device_state = DEVICE_STATE_INIT
    /\ last_packet_time = 0
    /\ dm_pack_sleep \in BOOLEAN
    /\ timer_us \in {0, 700}
    /\ dm_ticks = 0
    /\ dm_last_valid = 0
    /\ wifi_link = "none"
    /\ main_pc = "boot"

NextDevice ==
    \/ MainDmInit
    \/ MainWifiStart
    \/ MainUdpInit
    \/ MainUdpStart
    \/ MainSetStateInit
    \/ DevWifiEvent
    \/ DevTick
    \/ DevRxValid
    \/ DevRxShort

SpecDevice == InitDevice /\ [][NextDevice]_vars

\* C39: whenever the WiFi connected event has been handled and no
\* disconnect event since, the device state is DEVICE_STATE_CONNECTED; the
\* start-up sequence never puts DEVICE_STATE_INIT over it.
C39_ConnectedStateKept ==
    wifi_link = "connected"
        => device_manager_get_state = DEVICE_STATE_CONNECTED

\* C40: on a belt pack with light sleep enabled device_manager_should_sleep
\* is true exactly when the millisecond clock is at least
\* LIGHT_SLEEP_TIMEOUT_SEC seconds past its reading at the latest datagram
\* that passed the header test (at device_manager_init if there was none):
\* such a datagram resets the idle time, an undersized one does not, and
\* before device_manager_init the answer is FALSE.
C40_SleepAfterIdleTimeout ==
    /\ ~dm_initialized => ~device_manager_should_sleep
    /\ (dm_initialized /\ dm_pack_sleep)
           => (device_manager_should_sleep
                  <=> esp_timer_ms - dm_last_valid
                          >= LIGHT_SLEEP_TIMEOUT_SEC * 1000)

\* The timeout runs from a valid datagram and is reached exactly; an
\* undersized datagram has just arrived and has not reset it.
C40_Witness ==
    /\ dm_initialized
    /\ dm_pack_sleep
    /\ last_packet_events = 1
    /\ dm_last_valid > 0
    /\ rx_op.kind = "short"
    /\ esp_timer_ms - dm_last_valid = LIGHT_SLEEP_TIMEOUT_SEC * 1000
    /\ device_manager_should_sleep

====
